---- MODULE Spec2Model ----
(***************************************************************************)
(* Model of pcocc's virtual-network provisioning core                      *)
(* (lib/pcocc/Networks.py): the lifecycle of one network of one job        *)
(* (init_node, alloc_node_resources, free_node_resources, cleanup_node)    *)
(* on the hosts of the job, for the six network types, over the host's     *)
(* kernel / software-switch / PCI state and the batch key-value store.     *)
(***************************************************************************)
EXTENDS Integers, Sequences, FiniteSets, TLC

\* ------------------------------------------------------------------ bounds
NumHosts == 2
NumVMs == 3
NumVFs == 2
NumDevs == 2
NumOthers == 1
MaxRounds == 1
MaxChanges == 2
MaxInits == 2
MaxReruns == 1

Hosts == 0 .. (NumHosts - 1)
Others == 1 .. NumOthers

\* --------------------------------------------------------- program constants
\* VPVNetwork.__init__: the tunnel key range
_min_key == 1024
_max_key == 1025
\* VIBNetwork: settings min-pkey / max-pkey of the modelled catalog entry
_min_pkey == 8192
_max_pkey == 8193
\* the reverse-nat host port range starts at min-host-port
min_host_port == 10022

NetTypes == {"bridged", "pv", "nat", "hostib", "ib", "genericpci"}
\* class VFType
MLX4 == 1
MLX5 == 2
\* device_vf_type raising NetworkSetupError instead of returning a VFType
NoVFType == 0

\* values of settings["host-device"], as sequences of characters
Mlx4Dev == <<"m", "l", "x", "4", "_", "0">>
Mlx5Dev == <<"m", "l", "x", "5", "_", "0">>
HfiDev == <<"h", "f", "i", "1", "_", "0">>
NoDevice == <<>>
Devices == {Mlx4Dev, Mlx5Dev, HfiDev}

\* device_name[:4]
Prefix4(name) == [i \in 1 .. (IF Len(name) < 4 THEN Len(name) ELSE 4) |->
                    name[i]]

device_vf_type(device_name) ==
    IF Prefix4(device_name) = <<"m", "l", "x", "4">> THEN MLX4
    ELSE IF Prefix4(device_name) = <<"m", "l", "x", "5">> THEN MLX5
    ELSE NoVFType

\* software-switch port names used in flow actions
PORT_FLOOD == -1
PORT_LOCAL == -2
NoKey == -1
NoPort == -1

\* absent values of the key-value store
NoLabel == -1
NoRec == [vm |-> <<>>, glob |-> <<>>, present |-> FALSE]

VARIABLES
    ntype,      \* type tag of the network
    cfg,        \* settings of the network (the fields its type reads)
    vms,        \* cluster descriptor: sequence of [rank, host, net]
    faults,     \* whether external commands may fail in this run
    live,       \* hosts whose lifecycle process runs
    kern,       \* per host: kernel, software switch and PCI driver state
    proc,       \* per host: position and locals of the lifecycle process
    record,     \* key-value store: cluster/<network>/<host_rank>
    label,      \* key-value store: the published allocator result of the job
    guids,      \* key-value store: cluster/net/name/<network>/guids/<host_rank>
    rnat,       \* key-value store: cluster/rnat/<vm_rank>/<vm_port>
    opensm,     \* key-value store: global/opensm/pkeys/<pkey>
    bitmap,     \* key-value store: net/type/<type>/key_alloc_state (set bits)
    other,      \* other jobs using the same allocator bitmap
    hist,       \* history of the allocator: held, the (client, index) pairs
                \* handed out and not freed since; freed, the indices freed
                \* so far; njob, the number of indices handed to the job;
                \* dup, whether an index was handed out while still held
    host_device, \* settings["host-device"] of a hostib or ib network
    catalog,    \* the file given to VNetworkConfig.load
    loaded,     \* position and result of VNetworkConfig.load
    calc,       \* a call of a function of the module: its arguments, its
                \* position and its result
    pkeydir,    \* key-value store: the directory global/opensm/pkeys as the
                \* daemon lists it (children by name) and its change index
    pkey_try,   \* per host: the retry loop of vf_set_pkey for the VM being
                \* allocated (attempts made, seconds slept, last outcome)
    smd         \* pkey_daemon: its position and locals, the partition file
                \* at the configured path, its mode, the signals sent

vars == <<ntype, cfg, vms, faults, live, kern, proc, record, label, guids,
          rnat, opensm, bitmap, other, hist, host_device, catalog, loaded,
          calc, pkey_try, pkeydir, smd>>

jobVars == <<ntype, cfg, vms, faults, live, host_device, pkey_try, catalog,
             loaded,
             calc, pkeydir, smd>>
kvVars == <<record, label, guids, rnat, opensm, bitmap>>

\* ------------------------------------------------------------------ helpers
Min(S) == CHOOSE x \in S : \A y \in S : x <= y

Range(s) == {s[i] : i \in 1 .. Len(s)}

\* VNetwork._vm_res_label: the key "vm-<rank>" of a record, modelled by the rank
_vm_res_label(vm) == vm.rank

\* the VMs of the descriptor attached to the network, in descriptor order
IsNetVm(vm) == vm.net
net_vm_seq == SelectSeq(vms, IsNetVm)

\* vm.is_on_node() as evaluated by the process of host h
is_on_node(vm, h) == vm.host = h

\* the loop header "if not vm.is_on_node(): continue; if not self.name in
\* vm.networks: continue" shared by the per-VM loops: positions of vms kept
LocalIdx(h) == {i \in 1 .. Len(vms) : vms[i].net /\ is_on_node(vms[i], h)}
NetIdx == {i \in 1 .. Len(vms) : vms[i].net}

\* next position >= i in a set of positions, or 0 when the loop is over
NextIdx(S, i) == IF \E j \in S : j >= i THEN Min({j \in S : j >= i}) ELSE 0

\* find_free_dev_id: lowest position whose sorted used id is above it
find_free_dev_id(used) ==
    IF \E p \in 0 .. Cardinality(used) : p \notin used
    THEN Min({p \in 0 .. Cardinality(used) : p \notin used})
    ELSE Cardinality(used)

\* ovs_add_port / ovs_get_port_id: the switch numbers a new port of a bridge
\* with the lowest free OpenFlow port number
PortsOf(K, br) == {p \in K.ports : p.br = br}
NewPortId(K, br) ==
    Min({n \in 1 .. (Cardinality(PortsOf(K, br)) + 1) :
            \A p \in PortsOf(K, br) : p.ofport # n})

Port(br, dev, ofport, key, remote) ==
    [br |-> br, dev |-> dev, ofport |-> ofport, key |-> key,
     remote |-> remote]
Flow(br, prio, match, key, outs) ==
    [br |-> br, prio |-> prio, match |-> match, key |-> key, outs |-> outs]
Rule(chain, kind, bits, ip, port) ==
    [chain |-> chain, kind |-> kind, bits |-> bits, ip |-> ip, port |-> port]

CleanKernel ==
    [taps |-> {}, brs |-> {}, ports |-> {}, flows |-> {}, ipt |-> {},
     arp |-> {}, vfio |-> {}, vfset |-> {}, vfguid |-> {}, hostbr |-> TRUE,
     dnsmasq |-> FALSE, ip_forward |-> FALSE, fwd_drop |-> FALSE]

\* no call of vf_set_pkey was made for the VM being allocated
NoTry == [attempts |-> 0, slept |-> 0, last |-> "none", vf_addr |-> -1]

StartProc ==
    [pc |-> "start", i |-> 0, raised |-> {}, master |-> -1, idx |-> -1,
     snap |-> {}, net_res |-> NoRec, bridge |-> -1, local_ports |-> <<>>,
     host_tunnels |-> <<>>, loaded |-> NoRec, reallocs |-> 0, refrees |-> 0,
     kvread |-> FALSE, err |-> "", launched |-> FALSE, ifs |-> {}]

\* ---------------------------------------------------------- process helpers
Raised(p, phase) == [p EXCEPT !.raised = @ \cup {phase}]

\* net_res[vm_label] = res
WithVm(res, vm, r) ==
    [res EXCEPT !.vm = (_vm_res_label(vm) :> r) @@ @, !.present = TRUE]

HasVm(res, vm) == _vm_res_label(vm) \in DOMAIN res.vm

\* VNetwork.dump_resources: write_key('cluster', '<name>/<node_rank>', res)
dump_resources(h, res) ==
    record' = [record EXCEPT ![h] = [res EXCEPT !.present = TRUE]]

\* an external command of the per-VM allocation may fail only in runs with
\* faults; f = 0 is the run of the per-VM body in which no command fails
FailPoints(n) == IF faults THEN 0 .. n ELSE {0}
Done(f, step) == f = 0 \/ f > step

\* ---------------------------------------------------------------- init_node
\* the firewall rules VNATNetwork.init_node appends (all of them with
\* _vm_network_bits as the prefix length of the nat network)
NatInitRules ==
    { Rule("FORWARD", "ssh_new", cfg.vm_bits, 0, 0),
      Rule("FORWARD", "rel_est_in", cfg.vm_bits, 0, 0),
      Rule("FORWARD",
           IF cfg.allow_outbound THEN "out_accept" ELSE "out_rel_est",
           cfg.vm_bits, 0, 0),
      Rule("POSTROUTING", "masq_tcp", cfg.vm_bits, 0, 0),
      Rule("POSTROUTING", "masq_udp", cfg.vm_bits, 0, 0),
      Rule("POSTROUTING", "masq_all", cfg.vm_bits, 0, 0) }

\* the name of the NAT bridge (settings["bridge"]) among the bridge ids
NatBridge == 0

NatInitFlows ==
    { Flow(NatBridge, 1000, "arp_gw", 0, <<PORT_LOCAL>>),
      Flow(NatBridge, 1000, "arp_vm", 0, <<PORT_FLOOD>>),
      Flow(NatBridge, 0, "dhcp_reply", 0, <<PORT_FLOOD>>) }

NatInitKernel(K) ==
    [K EXCEPT !.brs = @ \cup {NatBridge},
              !.dnsmasq = TRUE,
              !.ip_forward = TRUE,
              !.fwd_drop = TRUE,
              !.ipt = @ \cup NatInitRules,
              !.flows = @ \cup NatInitFlows]

init_node(h) ==
    /\ h \in live
    /\ proc[h].pc = "start"
    /\ CASE ntype = "nat" ->
              /\ kern' = [kern EXCEPT ![h] = NatInitKernel(@)]
              /\ proc' = [proc EXCEPT ![h].pc = "inited"]
         [] ntype = "bridged" ->
              /\ kern' = kern
              /\ proc' = [proc EXCEPT
                    ![h] = IF kern[h].hostbr
                           THEN [@ EXCEPT !.pc = "inited"]
                           ELSE Raised([@ EXCEPT !.pc = "inited"], "init")]
         [] OTHER ->
              \* pv: pass; hostib, ib, genericpci: new_id registrations of
              \* the stub and passthrough drivers, which bind no device
              /\ kern' = kern
              /\ proc' = [proc EXCEPT ![h].pc = "inited"]
    /\ UNCHANGED <<jobVars, kvVars, other, hist>>

\* ----------------------------------------------- alloc_node_resources: head
\* VPVNetwork.alloc_node_resources, first loop, as run on host h: master is
\* the host rank of the first VM of the descriptor that is on the network;
\* the loop ends at the first such VM that is on the node
\* every host takes itself for the master
pv_master_self(h) == h
\* the master as the lowest host rank of the network
pv_master_lowest(h) ==
    IF NetIdx = {} THEN -1 ELSE Min({vms[i].host : i \in NetIdx})
pv_master(h) == IF NetIdx = {} THEN -1 ELSE vms[Min(NetIdx)].host

\* VIBNetwork.alloc_node_resources: net_hosts and sorted(net_hosts)[0]
net_hosts == {vms[i].host : i \in NetIdx}
ib_master == IF NetIdx = {} THEN -1 ELSE Min(net_hosts)

EmptyRes == [vm |-> <<>>, glob |-> <<>>, present |-> TRUE]

\* the end of one pass of the per-VM loop of the types whose loop runs over
\* the local VMs: next local VM, or the final dump_resources(net_res)
AllocAdvance(h, res, K) ==
    LET j == NextIdx(LocalIdx(h), proc[h].i + 1) IN
    /\ kern' = [kern EXCEPT ![h] = K]
    /\ IF j = 0
       THEN /\ proc' = [proc EXCEPT ![h] =
                          [@ EXCEPT !.pc = "alloced", !.i = 0,
                                    !.net_res = NoRec]]
            /\ dump_resources(h, res)
       ELSE /\ proc' = [proc EXCEPT ![h] =
                          [@ EXCEPT !.pc = "alloc_vm", !.i = j,
                                    !.net_res = res]]
            /\ record' = record

\* an exception leaves alloc_node_resources; dumped says whether the type's
\* handler wrote dump_resources(net_res) before re-raising
AllocRaise(h, res, K, dumped) ==
    /\ kern' = [kern EXCEPT ![h] = K]
    /\ proc' = [proc EXCEPT ![h] =
                  Raised([@ EXCEPT !.pc = "alloced", !.i = 0,
                                   !.net_res = NoRec], "alloc")]
    /\ IF dumped THEN dump_resources(h, res) ELSE record' = record

alloc_begin(h) ==
    /\ h \in live
    /\ proc[h].pc = "inited"
    /\ ntype \in {"bridged", "nat", "hostib", "genericpci"}
    /\ LET j == NextIdx(LocalIdx(h), 1) IN
       IF j = 0
       THEN /\ proc' = [proc EXCEPT ![h].pc = "alloced"]
            /\ dump_resources(h, EmptyRes)
       ELSE /\ proc' = [proc EXCEPT ![h] =
                          [@ EXCEPT !.pc = "alloc_vm", !.i = j,
                                    !.net_res = EmptyRes]]
            /\ record' = record
    /\ UNCHANGED <<jobVars, kern, label, guids, rnat, opensm, bitmap,
                   other, hist>>

\* VBridgedNetwork._alloc_vm_res. Commands: 1 tun_create_tap,
\* 2 dev_enable / ip_set_mtu / bridge_add_port
bridged_alloc_vm(h) ==
    /\ h \in live
    /\ ntype = "bridged"
    /\ proc[h].pc = "alloc_vm"
    /\ LET vm == vms[proc[h].i]
           K == kern[h]
           tap_id == find_free_dev_id(K.taps)
       IN \E f \in FailPoints(2) :
            LET K2 == [K EXCEPT !.taps = IF Done(f, 1)
                                         THEN @ \cup {tap_id} ELSE @]
            IN IF f = 0
               THEN AllocAdvance(h, WithVm(proc[h].net_res, vm,
                                           [tap_name |-> tap_id]), K2)
               ELSE AllocRaise(h, proc[h].net_res, K2, FALSE)
    /\ UNCHANGED <<jobVars, label, guids, rnat, opensm, bitmap, other, hist>>

\* get_ip_on_network(netaddr, offset) on addresses as 32-bit numbers
get_ip_on_network(netaddr, offset) == netaddr + offset

\* VNATNetwork._vm_ip_from_id
_vm_ip_from_id(nat_id) == get_ip_on_network(cfg.nat_network, nat_id + 2)

max_host_port == min_host_port + cfg.rnat - 1

\* the range of host ports is not looked at
rnat_unchecked(host_port) == FALSE
\* "if host_port > self._host_rnat_port_range[1]: raise NetworkSetupError"
rnat_overflow(host_port) == host_port > max_host_port

NatVmFlows(port, ip, f) ==
    (IF Done(f, 3) THEN {Flow(NatBridge, 1000, "snat", port, <<PORT_LOCAL>>)}
     ELSE {})
    \cup (IF Done(f, 4) THEN {Flow(NatBridge, 1000, "dnat", ip, <<port>>)}
          ELSE {})
    \cup (IF Done(f, 5)
          THEN {Flow(NatBridge, 1000, "dhcp_req", port, <<PORT_LOCAL>>)}
          ELSE {})

NatRnatRules(ip, host_port) ==
    [chain \in {"PREROUTING", "OUTPUT"} |->
        Rule(chain, "dnat", 32, ip, host_port)]

\* VNATNetwork._alloc_vm_res. Commands: 1 tun_create_tap (then dev_enable),
\* 2 ovs_add_port, 3-5 ovs_add_flow, 6 ip_arp_add, and with reverse-nat
\* 7-8 ipt_append_rule_idemp, 9 write_key of the host port
nat_alloc_vm(h) ==
    /\ h \in live
    /\ ntype = "nat"
    /\ proc[h].pc = "alloc_vm"
    /\ LET vm == vms[proc[h].i]
           K == kern[h]
           nat_id == find_free_dev_id(K.taps)
           vm_nat_ip == _vm_ip_from_id(nat_id)
           port == NewPortId(K, NatBridge)
           host_port == min_host_port + nat_id
           overflow == cfg.rnat > 0 /\ rnat_overflow(host_port)
       IN \E f \in FailPoints(IF cfg.rnat > 0 /\ ~overflow THEN 9 ELSE 6) :
            LET K2 == [K EXCEPT
                   !.taps = IF Done(f, 1) THEN @ \cup {nat_id} ELSE @,
                   !.ports = IF Done(f, 2)
                             THEN @ \cup {Port(NatBridge, nat_id, port, NoKey, -1)}
                             ELSE @,
                   !.flows = @ \cup NatVmFlows(port, vm_nat_ip, f),
                   !.arp = IF Done(f, 6) THEN @ \cup {vm_nat_ip} ELSE @,
                   !.ipt = @ \cup
                      (IF cfg.rnat > 0 /\ ~overflow /\ Done(f, 7)
                       THEN {NatRnatRules(vm_nat_ip, host_port)["PREROUTING"]}
                       ELSE {})
                      \cup
                      (IF cfg.rnat > 0 /\ ~overflow /\ Done(f, 8)
                       THEN {NatRnatRules(vm_nat_ip, host_port)["OUTPUT"]}
                       ELSE {})]
                 res == [tap_name |-> nat_id, hwaddr |-> "vm-hwaddr",
                         nat_ip |-> vm_nat_ip,
                         host_port |-> IF cfg.rnat > 0 THEN host_port
                                       ELSE NoPort]
            IN /\ IF f = 0 /\ ~overflow
                  THEN AllocAdvance(h, WithVm(proc[h].net_res, vm, res), K2)
                  ELSE AllocRaise(h, proc[h].net_res, K2, FALSE)
               /\ rnat' = IF cfg.rnat > 0 /\ ~overflow /\ f = 0
                          THEN (vm.rank :> host_port) @@ rnat
                          ELSE rnat
    /\ UNCHANGED <<jobVars, label, guids, opensm, bitmap, other, hist>>

\* settings["host-device-addrs"]: the configured PCI addresses, in list order
_device_addrs == [i \in 1 .. NumDevs |-> i - 1]

\* VGenericPCI.alloc_node_resources, one pass of the loop. The first address
\* of the list that is not bound to vfio-pci; commands of pci_bind_vfio:
\* 1 unbind / bind to vfio-pci, 2 iommu group lookup and chown
genericpci_alloc_vm(h) ==
    /\ h \in live
    /\ ntype = "genericpci"
    /\ proc[h].pc = "alloc_vm"
    /\ LET vm == vms[proc[h].i]
           K == kern[h]
           free == {i \in 1 .. NumDevs : _device_addrs[i] \notin K.vfio}
       IN IF free = {}
          THEN \* the for-else: 'unable to find a free PCI device of type
               \* {1}'.format(self.name) has no argument 1, so building the
               \* message of the NetworkSetupError raises IndexError
               /\ kern' = kern
               /\ proc' = [proc EXCEPT ![h] =
                            Raised([@ EXCEPT !.pc = "alloced", !.i = 0,
                                             !.net_res = NoRec,
                                             !.err = "IndexError"], "alloc")]
               /\ dump_resources(h, proc[h].net_res)
          ELSE LET dev_addr == _device_addrs[Min(free)] IN
               \E f \in FailPoints(2) :
                 LET K2 == [K EXCEPT !.vfio = IF Done(f, 1)
                                              THEN @ \cup {dev_addr} ELSE @]
                 IN IF f = 0
                    THEN AllocAdvance(h, WithVm(proc[h].net_res, vm,
                                                [dev_addr |-> dev_addr]), K2)
                    ELSE AllocRaise(h, proc[h].net_res, K2, TRUE)
    /\ UNCHANGED <<jobVars, label, guids, rnat, opensm, bitmap, other, hist>>

\* the virtual functions of the host device (virtfn<n> links)
VFs == 0 .. (NumVFs - 1)

\* a VF is taken without looking at the devices bound to vfio-pci
find_any_vf(K) == VFs
\* find_free_vf: the first VF, in the order os.listdir gives, that is not
\* bound to vfio-pci; the order of os.listdir is arbitrary
find_free_vf(K) == {vf \in VFs : vf \notin K.vfio}

\* vm_get_guid: 0xc0cc, pkey high and low byte, 00, rank high and low byte, 00
vm_get_guid(vm, pkey_id) ==
    <<49356, pkey_id \div 256, pkey_id % 256, 0,
      vm.rank \div 256, vm.rank % 256, 0>>

\* vm_get_node_guid: the same under 0xd0cc
vm_get_node_guid(vm, pkey_id) ==
    <<53452, pkey_id \div 256, pkey_id % 256, 0,
      vm.rank \div 256, vm.rank % 256, 0>>

my_pkey(idx) == _min_pkey + idx

\* VHostIBNetwork.alloc_node_resources: '0xc1cc' + self._gen_guid_suffix()
RandomGuid == <<49612>>

\* the port GUID taken from the node GUID function
vf_port_guid_node(h, vm) ==
    IF ntype = "ib" THEN vm_get_node_guid(vm, my_pkey(proc[h].idx))
    ELSE RandomGuid
\* the port GUID given to vf_set_guid: vm_get_guid(vm, my_pkey) for ib, the
\* environment's or a random one under 0xc1cc for hostib
vf_port_guid(h, vm) ==
    IF ntype = "ib" THEN vm_get_guid(vm, my_pkey(proc[h].idx))
    ELSE RandomGuid

\* the VF part of one pass of the loop of VHostIBNetwork / VIBNetwork
\* alloc_node_resources. Commands: 1-2 pci_bind_vfio (bind, chown),
\* 3 vf_allow_host_pkeys / vf_set_pkey (MLX4) or vf_set_guid (MLX5);
\* self._dev_vf_type is evaluated between 2 and 3 and may raise
VfAllocVm(h) ==
    LET vm == vms[proc[h].i]
        K == kern[h]
        typed == device_vf_type(host_device) # NoVFType
    IN IF find_free_vf(K) = {}
       THEN AllocRaise(h, proc[h].net_res, K, TRUE)
       ELSE \E vf_addr \in find_free_vf(K) :
            \E f \in FailPoints(3) :
              LET K2 == [K EXCEPT
                     !.vfio = IF Done(f, 1) THEN @ \cup {vf_addr} ELSE @,
                     !.vfset = IF Done(f, 3) /\ typed
                               THEN @ \cup {vf_addr} ELSE @,
                     !.vfguid =
                        IF Done(f, 3) /\ device_vf_type(host_device) = MLX5
                        THEN {e \in @ : e[1] # vf_addr}
                             \cup {<<vf_addr, vf_port_guid(h, vm)>>}
                        ELSE @]
              IN IF f = 0 /\ typed
                 THEN AllocAdvance(h, WithVm(proc[h].net_res, vm,
                                             [vf_addr |-> vf_addr]), K2)
                 ELSE AllocRaise(h, proc[h].net_res, K2, TRUE)

hostib_alloc_vm(h) ==
    /\ h \in live
    /\ ntype = "hostib"
    /\ proc[h].pc = "alloc_vm"
    /\ VfAllocVm(h)
    /\ UNCHANGED <<jobVars, label, guids, rnat, opensm, bitmap, other, hist>>

\* ------------------------------------------------------------- ID allocator
\* IDAllocator(key_path, num_ids): the number of ids of the network's type
ida_size == IF ntype = "pv" THEN _max_key - _min_key + 1
            ELSE _max_pkey - _min_pkey + 1

\* a bitmap that is never found full
IdaNeverFull(b) == FALSE
IdaFull(b) == Cardinality(b) >= ida_size

\* a compare-and-set that ignores the value it read
CasBlind(cur, snap) == TRUE
\* the compare-and-set of the key-value store succeeds when the key still
\* holds the value that was read
CasOk(cur, snap) == cur = snap
IdaLowestClear(b) == Min({i \in 0 .. Cardinality(b) : i \notin b})

\* the job is client 0 of the allocator, the other jobs are clients 1, 2, ...
JobClient == 0
Handed(c, idx) ==
    [hist EXCEPT !.held = @ \cup {<<c, idx>>},
                 !.njob = IF c = JobClient THEN @ + 1 ELSE @,
                 !.dup = @ \/ \E e \in hist.held : e[2] = idx]
Released(idx) ==
    [hist EXCEPT !.held = {e \in @ : e[2] # idx},
                 !.freed = @ \cup {idx}]

\* head of VPVNetwork / VIBNetwork alloc_node_resources, up to the call of
\* the allocator: return when no VM of the network is on the node
cluster_alloc_begin(h) ==
    /\ h \in live
    /\ proc[h].pc = "inited"
    /\ ntype \in {"pv", "ib"}
    /\ LET master == IF ntype = "pv" THEN pv_master(h) ELSE ib_master IN
       proc' = [proc EXCEPT ![h] =
          IF LocalIdx(h) = {}
          THEN [@ EXCEPT !.pc = "alloced"]
          ELSE [@ EXCEPT !.pc = IF h = master THEN "ida_read" ELSE "ida_wait",
                         !.master = master,
                         !.bridge = IF ntype = "pv"
                                    THEN find_free_dev_id(kern[h].brs)
                                    ELSE -1,
                         !.net_res = EmptyRes]]
    /\ UNCHANGED <<jobVars, kern, kvVars, other, hist>>

\* NetworkSetupError('{0}: {1}'.format(self.name, str(e)))
SetupErrorNamed == "setup error: <name of the network>: <allocator error>"

\* alloc_one(master = True): read the bitmap; ResourceExhausted when it is
\* full, which the caller re-raises as NetworkSetupError
ida_read(h) ==
    /\ h \in live
    /\ proc[h].pc = "ida_read"
    /\ proc' = [proc EXCEPT ![h] =
          IF IdaFull(bitmap)
          THEN Raised([@ EXCEPT !.pc = "alloced", !.net_res = NoRec,
                                !.err = SetupErrorNamed], "alloc")
          ELSE [@ EXCEPT !.pc = "ida_cas", !.snap = bitmap]]
    /\ UNCHANGED <<jobVars, kern, kvVars, other, hist>>

\* compare-and-set of the bitmap with the lowest clear bit set; on failure
\* re-read and retry
ida_cas(h) ==
    /\ h \in live
    /\ proc[h].pc = "ida_cas"
    /\ IF CasOk(bitmap, proc[h].snap)
       THEN LET idx == IdaLowestClear(proc[h].snap) IN
            /\ bitmap' = bitmap \cup {idx}
            /\ hist' = Handed(JobClient, idx)
            /\ proc' = [proc EXCEPT ![h] =
                          [@ EXCEPT !.pc = "ida_pub", !.idx = idx,
                                    !.snap = {}]]
       ELSE /\ proc' = [proc EXCEPT ![h] =
                          [@ EXCEPT !.pc = "ida_read", !.snap = {}]]
            /\ UNCHANGED <<bitmap, hist>>
    /\ UNCHANGED <<jobVars, kern, record, label, guids, rnat, opensm, other>>

\* position after the allocator call
AfterIda == IF ntype = "pv" THEN "alloc_vm" ELSE "guid_write"

\* the master writes the index to the label key of the job
ida_publish(h) ==
    /\ h \in live
    /\ proc[h].pc = "ida_pub"
    /\ label' = proc[h].idx
    /\ proc' = [proc EXCEPT ![h] =
                  [@ EXCEPT !.pc = AfterIda, !.i = NextIdx(NetIdx, 1)]]
    /\ UNCHANGED <<jobVars, kern, record, guids, rnat, opensm, bitmap,
                   other, hist>>

\* alloc_one(master = False): blocking read of the label key
ida_wait(h) ==
    /\ h \in live
    /\ proc[h].pc = "ida_wait"
    /\ label # NoLabel
    /\ proc' = [proc EXCEPT ![h] =
                  [@ EXCEPT !.pc = AfterIda, !.idx = label,
                            !.i = NextIdx(NetIdx, 1)]]
    /\ UNCHANGED <<jobVars, kern, kvVars, other, hist>>

\* another job's master: alloc_one(True, ...) on the same bitmap
other_alloc_read(o) ==
    /\ other[o].pc = "idle"
    /\ other[o].rounds < MaxRounds
    /\ ~IdaFull(bitmap)
    /\ other' = [other EXCEPT ![o] = [@ EXCEPT !.pc = "cas", !.snap = bitmap]]
    /\ UNCHANGED <<jobVars, kern, proc, kvVars, hist>>

other_alloc_cas(o) ==
    /\ other[o].pc = "cas"
    /\ IF CasOk(bitmap, other[o].snap)
       THEN LET idx == IdaLowestClear(other[o].snap) IN
            /\ bitmap' = bitmap \cup {idx}
            /\ hist' = Handed(o, idx)
            /\ other' = [other EXCEPT ![o] =
                           [@ EXCEPT !.pc = "hold", !.idx = idx, !.snap = {}]]
       ELSE /\ other' = [other EXCEPT ![o] =
                           [@ EXCEPT !.pc = "idle", !.snap = {}]]
            /\ UNCHANGED <<bitmap, hist>>
    /\ UNCHANGED <<jobVars, kern, proc, record, label, guids, rnat, opensm>>

\* another job's master: free_one(idx), read then compare-and-set
other_free_read(o) ==
    /\ other[o].pc = "hold"
    /\ other' = [other EXCEPT ![o] = [@ EXCEPT !.pc = "fcas", !.snap = bitmap]]
    /\ UNCHANGED <<jobVars, kern, proc, kvVars, hist>>

other_free_cas(o) ==
    /\ other[o].pc = "fcas"
    /\ IF CasOk(bitmap, other[o].snap)
       THEN /\ bitmap' = bitmap \ {other[o].idx}
            /\ hist' = Released(other[o].idx)
            /\ other' = [other EXCEPT ![o] =
                           [@ EXCEPT !.pc = "idle", !.idx = -1, !.snap = {},
                                     !.rounds = @ + 1]]
       ELSE /\ other' = [other EXCEPT ![o] =
                           [@ EXCEPT !.pc = "hold", !.snap = {}]]
            /\ UNCHANGED <<bitmap, hist>>
    /\ UNCHANGED <<jobVars, kern, proc, record, label, guids, rnat, opensm>>

\* ------------------------------------------------- pv: the per-VM loop body
\* VPVNetwork._gen_vm_hwaddr: the hex digits of the rank, zero-filled to the
\* length the prefix leaves (6 digits after the default prefix 52:54:00)
RECURSIVE HexDigits(_)
HexDigits(n) == IF n < 16 THEN <<n>> ELSE Append(HexDigits(n \div 16), n % 16)

RECURSIVE zfill(_, _)
zfill(d, width) == IF Len(d) >= width THEN d ELSE zfill(<<0>> \o d, width)

mac_suffix_len == 6
_gen_vm_hwaddr(vm) == zfill(HexDigits(vm.rank), mac_suffix_len)

\* the character ':' among the hex digits 0 .. 15 of an address
Colon == -1
IsHex(c) == c # Colon

\* ':'.join(s[i:i+2] for i in xrange(0, len(s), 2))
RECURSIVE join_pairs(_)
join_pairs(d) ==
    IF Len(d) <= 2 THEN d
    ELSE SubSeq(d, 1, 2) \o <<Colon>> \o join_pairs(SubSeq(d, 3, Len(d)))

\* the suffix length taken for the default prefix whatever the prefix is
suffix_len_default(hw_prefix) == mac_suffix_len
\* suffix_len = 12 - len(hw_prefix.replace(':', ''))
suffix_len(hw_prefix) == 12 - Len(SelectSeq(hw_prefix, IsHex))

\* VPVNetwork._gen_vm_hwaddr for any mac-prefix, as a string of characters
gen_vm_hwaddr(hw_prefix, rank) ==
    hw_prefix \o <<Colon>>
        \o join_pairs(zfill(HexDigits(rank), suffix_len(hw_prefix)))

\* name "htun-<bridge>-<n>" of the n-th tunnel port, among the device names
TunDev(n) == 0 - (n + 1)

\* "if host not in host_tunnels": a tunnel towards every remote VM
always_new_tunnel(host_tunnels, host) == FALSE
\* the host already has its tunnel port
has_tunnel(host_tunnels, host) == host \in DOMAIN host_tunnels

\* the key of the tunnels of the job
tun_id_of(idx) == _min_key + idx

\* one pass of the second loop of VPVNetwork.alloc_node_resources (over every
\* VM of the network). Commands: 1 ovs_add_bridge / ip_set_mtu (first pass),
\* local VM: 2 tun_create_tap, 3 ovs_add_port, 4-5 ovs_add_flow;
\* remote VM: 2 ovs_add_tunnel (first VM of its host), 3 ovs_add_flow.
\* After the last pass: the priority-1000 flow and dump_resources.
pv_alloc_vm(h) ==
    /\ h \in live
    /\ ntype = "pv"
    /\ proc[h].pc = "alloc_vm"
    /\ LET p == proc[h]
           vm == vms[p.i]
           K == kern[h]
           br == p.bridge
           tun_id == tun_id_of(p.idx)
           hwaddr == _gen_vm_hwaddr(vm)
           local == is_on_node(vm, h)
           tap_id == find_free_dev_id(K.taps)
           port_id == NewPortId(K, br)
           has_tun == has_tunnel(p.host_tunnels, vm.host)
           tun_port == IF has_tun THEN p.host_tunnels[vm.host] ELSE port_id
           j == NextIdx(NetIdx, p.i + 1)
       IN \E f \in FailPoints(IF local THEN 5 ELSE 3) :
          LET K2 == [K EXCEPT
                 !.brs = IF Done(f, 1) THEN @ \cup {br} ELSE @,
                 !.taps = IF local /\ Done(f, 2) THEN @ \cup {tap_id} ELSE @,
                 !.ports = @ \cup
                    (IF local /\ Done(f, 3)
                     THEN {Port(br, tap_id, port_id, NoKey, -1)} ELSE {})
                    \cup
                    (IF ~local /\ ~has_tun /\ Done(f, 2)
                     THEN {Port(br, TunDev(Cardinality(DOMAIN p.host_tunnels)),
                                port_id, tun_id, vm.host)}
                     ELSE {}),
                 !.flows = @ \cup
                    (IF local /\ Done(f, 4)
                     THEN {Flow(br, 3000, "dl_dst", hwaddr, <<port_id>>)}
                     ELSE {})
                    \cup
                    (IF local /\ Done(f, 5)
                     THEN {Flow(br, 2000, "in_port", <<port_id>>,
                                <<PORT_FLOOD>>)}
                     ELSE {})
                    \cup
                    (IF ~local /\ Done(f, 3)
                     THEN {Flow(br, 3000, "dl_dst", hwaddr, <<tun_port>>)}
                     ELSE {})]
              ports2 == IF local THEN Append(p.local_ports, port_id)
                        ELSE p.local_ports
              tuns2 == IF local \/ has_tun THEN p.host_tunnels
                       ELSE (vm.host :> port_id) @@ p.host_tunnels
              res2 == IF local
                      THEN WithVm(p.net_res, vm,
                                  [tap_name |-> tap_id, hwaddr |-> hwaddr,
                                   port_id |-> port_id])
                      ELSE p.net_res
              final == [res2 EXCEPT !.glob =
                          [bridge_name |-> br, tun_id |-> tun_id,
                           master |-> p.master]]
              K3 == [K2 EXCEPT !.flows =
                        IF ports2 # <<>>
                        THEN @ \cup {Flow(br, 1000, "any", <<>>, ports2)}
                        ELSE @]
          IN IF f # 0
             THEN AllocRaise(h, p.net_res, K2, FALSE)
             ELSE IF j # 0
             THEN /\ kern' = [kern EXCEPT ![h] = K2]
                  /\ proc' = [proc EXCEPT ![h] =
                                [@ EXCEPT !.i = j, !.net_res = res2,
                                          !.local_ports = ports2,
                                          !.host_tunnels = tuns2]]
                  /\ record' = record
             ELSE /\ kern' = [kern EXCEPT ![h] = K3]
                  /\ proc' = [proc EXCEPT ![h] =
                                [@ EXCEPT !.pc = "alloced", !.i = 0,
                                          !.net_res = NoRec,
                                          !.local_ports = <<>>,
                                          !.host_tunnels = <<>>]]
                  /\ dump_resources(h, final)
    /\ UNCHANGED <<jobVars, label, guids, rnat, opensm, bitmap, other, hist>>

\* ------------------------------------------------------ ib: GUIDs and pkey
\* get_phys_port_guid: the GUID of the physical port of the host's device
get_phys_port_guid(h) == <<h>>

IbGlob(h) == [master |-> (h = proc[h].master), pkey |-> my_pkey(proc[h].idx),
              pkey_index |-> proc[h].idx]

\* batch.write_key('cluster', net/name/<name>/guids/<node_rank>, host_guid)
guid_write(h) ==
    /\ h \in live
    /\ ntype = "ib"
    /\ proc[h].pc = "guid_write"
    /\ guids' = (h :> get_phys_port_guid(h)) @@ guids
    /\ proc' = [proc EXCEPT ![h] =
          IF h = @.master
          THEN [@ EXCEPT !.pc = "guid_wait"]
          ELSE [@ EXCEPT !.pc = "alloc_vm", !.i = NextIdx(LocalIdx(h), 1),
                         !.net_res = [EmptyRes EXCEPT !.glob = IbGlob(h)]]]
    /\ UNCHANGED <<jobVars, kern, record, label, rnat, opensm, bitmap,
                   other, hist>>

\* the values of the children of the guids directory, in key order
ChildValues(dir) ==
    LET n == Cardinality(DOMAIN dir)
        keys == CHOOSE s \in [1 .. n -> DOMAIN dir] :
                    \A a, b \in 1 .. n : a < b => s[a] < s[b]
    IN [k \in 1 .. n |-> dir[keys[k]]]

\* waiting for the other hosts only, and for one child per VM of the network
wait_others == Cardinality(net_hosts) - 1
wait_vms == Cardinality(NetIdx)
\* the number of children wait_child_count waits for: len(net_hosts)
wait_count == Cardinality(net_hosts)

\* the master: wait_child_count on the guids directory, then write
\* global/opensm/pkeys/<hex(my_pkey)>
guid_collect(h) ==
    /\ h \in live
    /\ ntype = "ib"
    /\ proc[h].pc = "guid_wait"
    /\ Cardinality(DOMAIN guids) >= wait_count
    /\ LET pkey == my_pkey(proc[h].idx)
           sm_config ==
             [host_guids |-> ChildValues(guids),
              vf_guids |-> [k \in 1 .. Len(net_vm_seq) |->
                               vm_get_guid(net_vm_seq[k], pkey)]]
       IN opensm' = (pkey :> sm_config) @@ opensm
    /\ proc' = [proc EXCEPT ![h] =
          [@ EXCEPT !.pc = "alloc_vm", !.i = NextIdx(LocalIdx(h), 1),
                    !.net_res = [EmptyRes EXCEPT !.glob = IbGlob(h)]]]
    /\ UNCHANGED <<jobVars, kern, record, label, guids, rnat, bitmap,
                   other, hist>>

\* for i in range(5): the number of attempts of vf_set_pkey
pkey_attempts == 5
\* time.sleep(1) after each failed attempt
backoff_flat(i) == 1
\* time.sleep(1 + i*2) after the failed attempt of index i
backoff(i) == 1 + i * 2

\* the outcomes of one call of vf_set_pkey: it returns, find_pkey_idx raises
\* NetworkSetupError (the partition key is not on the device yet), or
\* another exception leaves it (a write to sysfs fails)
PkeyOutcomes == IF faults THEN {"ok", "not_found", "error"} ELSE {"ok"}

\* one pass of the loop of VIBNetwork.alloc_node_resources up to the retry
\* loop, for an MLX4 device: find_free_vf, then pci_bind_vfio (commands 1-2)
Mlx4BindVm(h) ==
    LET K == kern[h] IN
    IF find_free_vf(K) = {}
    THEN /\ AllocRaise(h, proc[h].net_res, K, TRUE)
         /\ pkey_try' = [pkey_try EXCEPT ![h] = NoTry]
    ELSE \E vf_addr \in find_free_vf(K) :
         \E f \in FailPoints(2) :
           LET K2 == [K EXCEPT
                  !.vfio = IF Done(f, 1) THEN @ \cup {vf_addr} ELSE @]
           IN IF f # 0
              THEN /\ AllocRaise(h, proc[h].net_res, K2, TRUE)
                   /\ pkey_try' = [pkey_try EXCEPT ![h] = NoTry]
              ELSE /\ kern' = [kern EXCEPT ![h] = K2]
                   /\ proc' = [proc EXCEPT ![h].pc = "set_pkey"]
                   /\ record' = record
                   /\ pkey_try' = [pkey_try EXCEPT ![h] =
                                     [NoTry EXCEPT !.vf_addr = vf_addr]]

ib_alloc_vm(h) ==
    /\ h \in live
    /\ ntype = "ib"
    /\ proc[h].pc = "alloc_vm"
    /\ IF device_vf_type(host_device) = MLX4
       THEN Mlx4BindVm(h)
       ELSE VfAllocVm(h) /\ pkey_try' = pkey_try
    /\ UNCHANGED <<ntype, cfg, vms, faults, live, host_device, catalog,
                   loaded, calc, pkeydir, smd, label, guids, rnat, opensm,
                   bitmap, other, hist>>

\* one attempt of the retry loop: vf_set_pkey(device_name, vf_addr, my_pkey).
\* NetworkSetupError is caught: re-raised from the last attempt, followed
\* by a sleep and the next attempt otherwise. Any exception that leaves the
\* loop is caught by the handler of the VM, which dumps net_res and re-raises.
ib_set_pkey(h) ==
    /\ h \in live
    /\ ntype = "ib"
    /\ proc[h].pc = "set_pkey"
    /\ LET t == pkey_try[h]
           i == t.attempts
           vm == vms[proc[h].i]
           K == kern[h]
       IN \E o \in PkeyOutcomes :
            /\ pkey_try' = [pkey_try EXCEPT ![h] =
                  [t EXCEPT !.attempts = i + 1, !.last = o,
                            !.slept = IF o = "not_found"
                                         /\ i # pkey_attempts - 1
                                      THEN @ + backoff(i) ELSE @]]
            /\ IF o = "ok"
               THEN AllocAdvance(h, WithVm(proc[h].net_res, vm,
                                           [vf_addr |-> t.vf_addr]),
                                 [K EXCEPT !.vfset = @ \cup {t.vf_addr}])
               ELSE IF o = "not_found" /\ i # pkey_attempts - 1
               THEN UNCHANGED <<kern, proc, record>>
               ELSE AllocRaise(h, proc[h].net_res, K, TRUE)
    /\ UNCHANGED <<ntype, cfg, vms, faults, live, host_device, catalog,
                   loaded, calc, pkeydir, smd, label, guids, rnat, opensm,
                   bitmap, other, hist>>

\* ------------------------------------------------------ free_node_resources
\* the local VMs the loop of free_node_resources visits before it stops: all
\* of them, or those before the first one whose cleanup raises
Visited(h, B) ==
    IF B = {} THEN LocalIdx(h) ELSE {i \in LocalIdx(h) : i < Min(B)}

\* what the loop of free_node_resources does to the kernel of host h, given
\* the record R read by load_resources
FreeKernel(h, R) ==
    LET K == kern[h]
        res(i) == R.vm[_vm_res_label(vms[i])]
        \* net_res[vm_label] raises KeyError; the commands of the cleanup
        \* fail on a device that does not exist, except the deletion of a
        \* TAP ("ip tuntap del" / "tunctl -d" attach to the name and clear
        \* its persistence, whether or not the device existed)
        bridged_fails(vm) == ~HasVm(R, vm)
        nat_fails(vm) ==
            \/ ~HasVm(R, vm)
            \/ ~\E p \in PortsOf(K, NatBridge) :
                  p.dev = R.vm[_vm_res_label(vm)].tap_name
        pci_fails(vm) ==
            \/ ~HasVm(R, vm)
            \/ R.vm[_vm_res_label(vm)].dev_addr \notin K.vfio
        pv_fails(vm) ==
            \/ ~HasVm(R, vm)
            \/ ~\E p \in PortsOf(K, R.glob.bridge_name) :
                  p.dev = R.vm[_vm_res_label(vm)].tap_name
        \* VHostIBNetwork._free_node_vfs calls vf_unbind_vfio, a name the
        \* module does not define (it defines pci_unbind_vfio): NameError
        vf_fails(vm) == TRUE
        \* the local VMs on which the loop body raises
        bad(fails(_)) == {i \in LocalIdx(h) : fails(vms[i])}
    IN CASE ntype = "bridged" ->
            LET V == Visited(h, bad(bridged_fails)) IN
            [k |-> [K EXCEPT !.taps = @ \ {res(i).tap_name : i \in V}],
             ok |-> bad(bridged_fails) = {}]
       [] ntype = "nat" ->
            LET V == Visited(h, bad(nat_fails))
                tapsV == {res(i).tap_name : i \in V}
                ipsV == {res(i).nat_ip : i \in V}
                portsV == {p \in PortsOf(K, NatBridge) : p.dev \in tapsV}
                ofV == {p.ofport : p \in portsV}
            IN
            [k |-> [K EXCEPT
                !.flows = {fl \in @ :
                    ~(\/ fl.match = "snat" /\ fl.key \in ofV
                      \/ fl.match = "dnat" /\ fl.key \in ipsV)},
                !.ports = @ \ portsV,
                !.taps = @ \ tapsV,
                !.arp = @ \ ipsV,
                !.ipt = @ \ {NatRnatRules(res(i).nat_ip,
                                          res(i).host_port)[c] :
                             i \in {v \in V : res(v).host_port # NoPort},
                             c \in {"PREROUTING", "OUTPUT"}}],
             ok |-> bad(nat_fails) = {}]
       [] ntype = "genericpci" ->
            LET V == Visited(h, bad(pci_fails)) IN
            [k |-> [K EXCEPT !.vfio = @ \ {res(i).dev_addr : i \in V}],
             ok |-> bad(pci_fails) = {}]
       [] ntype = "pv" ->
            LET V == Visited(h, bad(pv_fails))
                tapsV == {res(i).tap_name : i \in V}
                br == R.glob.bridge_name
                good == bad(pv_fails) = {}
            IN
            [k |-> [K EXCEPT
                !.ports = IF good THEN {p \in @ : p.br # br}
                          ELSE {p \in @ : ~(p.br = br /\ p.dev \in tapsV)},
                !.taps = @ \ tapsV,
                !.flows = IF good THEN {fl \in @ : fl.br # br} ELSE @,
                !.brs = IF good THEN @ \ {br} ELSE @],
             ok |-> good]
       [] OTHER ->
            [k |-> K, ok |-> bad(vf_fails) = {}]

\* VIBNetwork.free_node_resources: "net_res = None", and the record is only
\* loaded into the local variable of _free_node_vfs
ib_free_net_res == NoRec

\* whether free_node_resources goes on to free the cluster-wide state
FreesGlobal(h, R) ==
    CASE ntype = "pv" -> R.glob.master = h
      [] ntype = "ib" -> ib_free_net_res.present /\ ib_free_net_res.glob.master
      [] OTHER -> FALSE

\* the messages of the exceptions free_node_resources and
\* load_node_resources end with
UnableToLoad == "unable to load resources"
OtherError == "other"

\* load_resources: the record is taken whether or not read_key found data
data_optional(R) == FALSE
\* load_resources: "if not data: raise NetworkSetupError"
no_data(R) == ~R.present

free_node_resources(h) ==
    /\ h \in live
    /\ proc[h].pc = "alloced"
    /\ LET R == record[h] IN
       IF LocalIdx(h) = {}
       THEN /\ proc' = [proc EXCEPT ![h] =
                          [@ EXCEPT !.pc = "freed", !.kvread = FALSE]]
            /\ kern' = kern
       ELSE IF no_data(R)
       THEN \* load_resources: NetworkSetupError('unable to load resources')
            /\ proc' = [proc EXCEPT ![h] =
                          Raised([@ EXCEPT !.pc = "freed", !.kvread = TRUE,
                                           !.err = UnableToLoad], "free")]
            /\ kern' = kern
       ELSE LET out == FreeKernel(h, R) IN
            /\ kern' = [kern EXCEPT ![h] = out.k]
            /\ proc' = [proc EXCEPT ![h] =
                 IF ~out.ok
                 THEN Raised([@ EXCEPT !.pc = "freed", !.kvread = TRUE,
                                       !.err = OtherError], "free")
                 ELSE IF FreesGlobal(h, R)
                 THEN [@ EXCEPT !.pc = "free_ida_read", !.loaded = R,
                                !.kvread = TRUE]
                 ELSE [@ EXCEPT !.pc = "freed", !.kvread = TRUE]]
    /\ UNCHANGED <<jobVars, kvVars, other, hist>>

\* the index free_one is called with
free_index(h) ==
    IF ntype = "pv" THEN proc[h].loaded.glob.tun_id - _min_key
    ELSE proc[h].loaded.glob.pkey_index

\* VIBNetwork.free_node_resources: delete_key('global', opensm/pkeys/<pkey>)
\* comes first in the master's branch
free_ida_read(h) ==
    /\ h \in live
    /\ proc[h].pc = "free_ida_read"
    /\ proc' = [proc EXCEPT ![h] =
                  [@ EXCEPT !.pc = "free_ida_cas", !.snap = bitmap]]
    /\ opensm' = IF ntype = "ib"
                 THEN [k \in DOMAIN opensm \ {proc[h].loaded.glob.pkey} |->
                          opensm[k]]
                 ELSE opensm
    /\ UNCHANGED <<jobVars, kern, record, label, guids, rnat, bitmap,
                   other, hist>>

\* free_one: clear the bit under compare-and-set, then the caller's
\* delete_dir('cluster', net/name/<name>/)
free_ida_cas(h) ==
    /\ h \in live
    /\ proc[h].pc = "free_ida_cas"
    /\ IF CasOk(bitmap, proc[h].snap)
       THEN /\ bitmap' = bitmap \ {free_index(h)}
            /\ hist' = Released(free_index(h))
            /\ guids' = <<>>
            /\ proc' = [proc EXCEPT ![h] =
                          [@ EXCEPT !.pc = "freed", !.snap = {},
                                    !.loaded = NoRec]]
       ELSE /\ proc' = [proc EXCEPT ![h] =
                          [@ EXCEPT !.pc = "free_ida_read", !.snap = {}]]
            /\ UNCHANGED <<bitmap, hist, guids>>
    /\ UNCHANGED <<jobVars, kern, record, label, rnat, opensm, other>>

\* ------------------------------------------------------------- cleanup_node
\* the rules VNATNetwork.cleanup_node deletes (ipt_delete_rule_idemp)
NatCleanupRules ==
    { Rule("FORWARD", "rel_est_in", cfg.nat_bits, 0, 0),
      Rule("FORWARD",
           IF cfg.allow_outbound THEN "out_accept" ELSE "out_rel_est",
           cfg.vm_bits, 0, 0),
      Rule("FORWARD", "ssh_new", cfg.nat_bits, 0, 0),
      Rule("POSTROUTING", "masq_tcp", cfg.nat_bits, 0, 0),
      Rule("POSTROUTING", "masq_udp", cfg.nat_bits, 0, 0),
      Rule("POSTROUTING", "masq_all", cfg.nat_bits, 0, 0) }

\* ovs_del_bridge: the bridge goes with its ports and flows
DelBridges(K, B) ==
    [K EXCEPT !.brs = @ \ B,
              !.ports = {p \in @ : p.br \notin B},
              !.flows = {fl \in @ : fl.br \notin B}]

CleanupKernel(K) ==
    CASE ntype = "bridged" -> [K EXCEPT !.taps = {}]
      [] ntype = "pv" -> [DelBridges(K, K.brs) EXCEPT !.taps = {}]
      [] ntype = "nat" ->
            [DelBridges(K, {NatBridge}) EXCEPT
                !.ip_forward = FALSE,
                !.fwd_drop = FALSE,
                \* the neighbour entries of the bridge go with the bridge
                !.arp = {},
                !.ipt = @ \ NatCleanupRules,
                !.taps = {},
                !.dnsmasq = FALSE]
      [] ntype = "genericpci" ->
            [K EXCEPT !.vfio = @ \ Range(_device_addrs)]
      [] OTHER -> [K EXCEPT !.vfio = @ \ VFs]

\* the statements of cleanup_node in program order; the loops over the
\* leftover devices are one stage each
StageCount ==
    CASE ntype = "nat" -> 6
      [] ntype = "pv" -> 2
      [] OTHER -> 1

\* the devices the loop of stage k visits (empty for a stage that is no loop)
LoopDevs(K, k) ==
    CASE ntype = "bridged" -> K.taps
      [] ntype = "pv" -> IF k = 1 THEN K.brs ELSE K.taps
      [] ntype = "nat" -> IF k = 5 THEN K.taps ELSE {}
      [] ntype = "genericpci" -> K.vfio \cap Range(_device_addrs)
      [] OTHER -> K.vfio \cap VFs

IsLoop(k) == ntype # "nat" \/ k = 5

\* the loop of stage k having reclaimed the devices D
Reclaim(K, k, D) ==
    CASE ntype = "pv" /\ k = 1 -> DelBridges(K, D)
      [] ntype \in {"genericpci", "hostib", "ib"} -> [K EXCEPT !.vfio = @ \ D]
      [] OTHER -> [K EXCEPT !.taps = @ \ D]

\* stage k run to its end
CleanupStage(K, k) ==
    IF IsLoop(k) THEN Reclaim(K, k, LoopDevs(K, k))
    ELSE CASE k = 1 -> [K EXCEPT !.ip_forward = FALSE]
           [] k = 2 -> [K EXCEPT !.fwd_drop = FALSE]
           [] k = 3 -> [DelBridges(K, {NatBridge}) EXCEPT !.arp = {}]
           [] k = 4 -> [K EXCEPT !.ipt = @ \ NatCleanupRules]
           [] OTHER -> [K EXCEPT !.dnsmasq = FALSE]

RECURSIVE RunStages(_, _, _)
RunStages(K, k, n) ==
    IF k > n THEN K ELSE RunStages(CleanupStage(K, k), k + 1, n)

\* a command of stage f raises (no cleanup_node has a try/except): the
\* stages before f are done and, when f is a loop, the devices D visited
\* before the one whose command failed are reclaimed
CleanupFailed(K, f, D) ==
    LET K1 == RunStages(K, 1, f - 1)
    IN IF IsLoop(f) THEN Reclaim(K1, f, D) ELSE K1

cleanup_node(h) ==
    /\ h \in live
    /\ proc[h].pc = "freed"
    /\ \/ /\ kern' = [kern EXCEPT ![h] = CleanupKernel(@)]
          /\ proc' = [proc EXCEPT ![h].pc = "cleaned"]
       \/ /\ faults
          /\ \E f \in 1 .. StageCount :
             \E D \in SUBSET LoopDevs(kern[h], f) :
                /\ IsLoop(f) => D # LoopDevs(kern[h], f)
                /\ kern' = [kern EXCEPT ![h] = CleanupFailed(@, f, D)]
          /\ proc' = [proc EXCEPT ![h] =
                        Raised([@ EXCEPT !.pc = "cleaned"], "cleanup")]
    /\ UNCHANGED <<jobVars, kvVars, other, hist>>

\* ------------------------------------------------------------ specifications
\* cluster descriptors: NumVMs VMs of ranks 0, 1, ..., each on some host and
\* attached to the network or not
VmLists ==
    {[i \in 1 .. NumVMs |-> [rank |-> i - 1, host |-> hs[i], net |-> ns[i]]] :
        hs \in [1 .. NumVMs -> Hosts], ns \in [1 .. NumVMs -> BOOLEAN]}

\* settings of a nat network: prefix lengths of nat-network and vm-network,
\* allow-outbound, and the number of host ports of reverse-nat (0: none)
NatCfgs ==
    [nat_network : {184287232}, nat_bits : {24, 30}, vm_bits : {16, 24},
     allow_outbound : BOOLEAN, rnat : 0 .. 2]

NoNatCfg ==
    [nat_network |-> 0, nat_bits |-> 0, vm_bits |-> 0,
     allow_outbound |-> TRUE, rnat |-> 0]

\* ------------------------------------------------- catalog loader (registry)
\* A catalog file is unreadable, not YAML, a YAML document that is not a
\* mapping, or a mapping from network names to entries.  A name is the
\* sequence of the classes of its characters; a settings value keeps its YAML
\* type, whether it matches the pattern its key may declare, and its text.
NoDefault == "<none>"
Prop(k, ty, pat, d) == [key |-> k, type |-> ty, pattern |-> pat, dflt |-> d]

\* network_config_schema, definitions/<t>/properties/settings/properties
Properties(t) ==
    CASE t = "nat" ->
           {Prop("nat-network", "string", FALSE, NoDefault),
            Prop("vm-network", "string", FALSE, NoDefault),
            Prop("vm-network-gw", "string", FALSE, NoDefault),
            Prop("vm-ip", "string", FALSE, NoDefault),
            Prop("vm-hwaddr", "string", TRUE, "52:54:00:44:AE:5E"),
            Prop("bridge", "string", FALSE, NoDefault),
            Prop("bridge-hwaddr", "string", TRUE, "52:54:00:C0:C0:C0"),
            Prop("tap-prefix", "string", FALSE, NoDefault),
            Prop("mtu", "integer", FALSE, "1500"),
            Prop("domain-name", "string", FALSE, ""),
            Prop("dns-server", "string", FALSE, ""),
            Prop("ntp-server", "string", FALSE, ""),
            Prop("reverse-nat", "object", FALSE, NoDefault),
            Prop("allow-outbound", "string", FALSE, "all")}
      [] t = "pv" ->
           {Prop("mac-prefix", "string", TRUE, "52:54:00"),
            Prop("bridge-prefix", "string", FALSE, NoDefault),
            Prop("tap-prefix", "string", FALSE, NoDefault),
            Prop("mtu", "integer", FALSE, "1500"),
            Prop("host-if-suffix", "string", FALSE, NoDefault)}
      [] t = "ib" ->
           {Prop("host-device", "string", FALSE, NoDefault),
            Prop("min-pkey", "string", TRUE, NoDefault),
            Prop("max-pkey", "string", TRUE, NoDefault),
            Prop("license", "string", FALSE, NoDefault),
            Prop("opensm-daemon", "string", FALSE, NoDefault),
            Prop("opensm-partition-cfg", "string", FALSE, NoDefault),
            Prop("opensm-partition-tpl", "string", FALSE, NoDefault)}
      [] t = "bridged" ->
           {Prop("host-bridge", "string", FALSE, NoDefault),
            Prop("tap-prefix", "string", FALSE, NoDefault),
            Prop("mtu", "integer", FALSE, "1500")}
      [] t = "hostib" ->
           {Prop("host-device", "string", FALSE, NoDefault)}
      [] t = "genericpci" ->
           {Prop("host-device-addrs", "array", FALSE, NoDefault),
            Prop("host-driver", "string", FALSE, NoDefault)}
      [] OTHER -> {}

\* network_config_schema, definitions/<t>/properties/settings/required
Required(t) ==
    CASE t = "nat" -> {"nat-network", "vm-network", "vm-network-gw", "vm-ip",
                       "bridge", "tap-prefix"}
      [] t = "pv" -> {"bridge-prefix", "tap-prefix"}
      [] t = "ib" -> {"min-pkey", "max-pkey", "host-device", "opensm-daemon",
                      "opensm-partition-cfg", "opensm-partition-tpl"}
      [] t = "bridged" -> {"host-bridge", "tap-prefix"}
      [] t = "hostib" -> {"host-device"}
      [] t = "genericpci" -> {"host-device-addrs", "host-driver"}
      [] OTHER -> {}

PropKeys(t) == {p.key : p \in Properties(t)}
PropOf(t, k) == CHOOSE p \in Properties(t) : p.key = k
DefaultKeys(t) == {p.key : p \in {q \in Properties(t) : q.dflt # NoDefault}}

\* the keys each constructor reads with settings[...], and those it reads
\* with settings.get(..., default)
Reads(t) ==
    CASE t = "nat" -> {"bridge", "nat-network", "vm-network", "vm-network-gw",
                       "vm-ip", "tap-prefix", "mtu", "vm-hwaddr",
                       "bridge-hwaddr", "domain-name", "dns-server",
                       "ntp-server", "allow-outbound"}
      [] t = "pv" -> {"bridge-prefix", "tap-prefix", "mtu", "host-if-suffix"}
      [] t = "ib" -> {"host-device", "min-pkey", "max-pkey",
                      "opensm-partition-cfg", "opensm-partition-tpl",
                      "opensm-daemon"}
      [] t = "bridged" -> {"host-bridge", "tap-prefix", "mtu"}
      [] t = "hostib" -> {"host-device"}
      [] t = "genericpci" -> {"host-device-addrs", "host-driver"}
      [] OTHER -> {}

Gets(t) ==
    CASE t = "pv" -> {"mac-prefix"}
      [] t = "ib" -> {"license"}
      [] OTHER -> {}

GetDefault(t, k) == IF t = "pv" THEN "52:54:00" ELSE "None"

\* the pattern "^([a-zA-Z][a-zA-Z_0-9--]*)$" of the catalog's keys
NameOk(n) ==
    /\ Len(n) >= 1
    /\ n[1] = "alpha"
    /\ \A i \in 2 .. Len(n) : n[i] \in {"alpha", "digit", "under", "dash"}

\* Draft 4 validation of a settings mapping s against definition t
SettingsValid(t, s) ==
    /\ \A k \in DOMAIN s \cap PropKeys(t) :
          /\ s[k].type = PropOf(t, k).type
          /\ PropOf(t, k).pattern => s[k].match
    /\ DOMAIN s \subseteq PropKeys(t)
    /\ Required(t) \subseteq DOMAIN s

\* Draft 4 validation of an entry against '#/definitions/<t>': properties
\* constrains the keys that are present, nothing is required of an entry,
\* and a value that is not a mapping passes
EntryValid(t, e) ==
    \/ ~e.is_map
    \/ /\ e.has_type => e.type = t
       /\ e.has_settings => SettingsValid(t, e.settings)

Branches(e) == {t \in NetTypes : EntryValid(t, e)}

\* the errors iter_errors can report first for a parsed document: at the top
\* level (empty path) when the document is not a mapping or a key does not
\* match the name pattern, under a network name when oneOf fails there
Errors(doc) ==
    IF doc.kind # "map"
    THEN {[path |-> <<>>, validator |-> "type"]}
    ELSE {[path |-> <<>>, validator |-> "additionalProperties"] :
              n \in {m \in DOMAIN doc.nets : ~NameOk(m)}}
         \cup
         {[path |-> <<n>>, validator |-> "oneOf"] :
              n \in {m \in DOMAIN doc.nets :
                        NameOk(m) /\ Cardinality(Branches(doc.nets[m])) # 1}}

\* Misc.DefaultValidatingDraft4Validator: the keys of the matching definition
\* that declare a default and are missing are set during validation
set_defaults(t, s) ==
    [k \in DOMAIN s \cup DefaultKeys(t) |->
        IF k \in DOMAIN s THEN s[k]
        ELSE [type |-> PropOf(t, k).type, match |-> TRUE,
              val |-> PropOf(t, k).dflt]]

Validated(doc) ==
    [n \in DOMAIN doc.nets |->
        LET e == doc.nets[n]
            t == CHOOSE b \in Branches(e) : TRUE
        IN  IF e.has_settings
            THEN [e EXCEPT !.settings = set_defaults(t, e.settings)]
            ELSE e]

\* VNetwork.create and the constructor it dispatches to: the network object,
\* or the exception raised
create(t, name, s) ==
    IF t \notin NetTypes
    THEN [raised |-> "InvalidConfigurationError"]
    ELSE IF ~(Reads(t) \subseteq DOMAIN s)
    THEN [raised |-> "KeyError"]
    ELSE [raised |-> "",
          net |-> [type |-> t, name |-> name,
                   attrs |-> [k \in Reads(t) \cup Gets(t) |->
                                 IF k \in DOMAIN s THEN s[k].val
                                 ELSE GetDefault(t, k)]]]

\* ------------------------------------------------------ the catalogs loaded
UserVal(t, k) ==
    [type |-> IF k \in PropKeys(t) THEN PropOf(t, k).type ELSE "string",
     match |-> TRUE,
     val |-> IF k = "allow-outbound" THEN "none" ELSE "user"]

OtherType(ty) == IF ty = "string" THEN "integer" ELSE "string"

SettingsOn(t, K) == [k \in K |-> UserVal(t, k)]

UserSettings(t) ==
    {SettingsOn(t, PropKeys(t)), SettingsOn(t, Required(t)),
     SettingsOn(t, Required(t) \cup {"bogus"})}
    \cup {SettingsOn(t, Required(t) \ {k}) : k \in Required(t)}
    \cup {SettingsOn(t, Required(t) \cup {k}) : k \in PropKeys(t)}
    \cup {[SettingsOn(t, Required(t) \cup {k}) EXCEPT
              ![k].type = OtherType(@)] : k \in PropKeys(t)}
    \cup {[SettingsOn(t, Required(t) \cup {k}) EXCEPT ![k].match = FALSE] :
              k \in {p.key : p \in {q \in Properties(t) : q.pattern}}}

NoSettings == [k \in {} |-> UserVal("", k)]
Entry(t, s) ==
    [is_map |-> TRUE, has_type |-> TRUE, type |-> t,
     has_settings |-> TRUE, settings |-> s]
Entries ==
    UNION {{Entry(t, s) : s \in UserSettings(t)} : t \in NetTypes}
    \cup {Entry(t, SettingsOn(u, Required(u))) :
              t \in NetTypes \cup {"vlan"}, u \in NetTypes}
    \cup {[Entry("", SettingsOn(u, Required(u))) EXCEPT !.has_type = FALSE] :
              u \in NetTypes}
    \cup {[Entry(t, NoSettings) EXCEPT !.has_settings = FALSE] :
              t \in NetTypes \cup {"vlan"}}
    \cup {[Entry("", NoSettings) EXCEPT
              !.is_map = FALSE, !.has_type = FALSE, !.has_settings = FALSE]}

Names == {<<"alpha">>, <<"alpha", "digit">>, <<"alpha", "dash">>,
          <<"digit", "alpha">>, <<"alpha", "dot">>}

Doc(kind, nets) == [kind |-> kind, nets |-> nets]
NoNets == [n \in {} |-> Entry("", NoSettings)]
Catalogs ==
    {Doc(k, NoNets) : k \in {"unreadable", "malformed", "scalar", "map"}}
    \cup {Doc("map", [n \in {m} |-> e]) : m \in Names, e \in Entries}
    \cup {Doc("map", [n \in {<<"alpha">>, m} |->
                         IF n = m THEN Entry(t, SettingsOn(t, PropKeys(t)))
                         ELSE Entry(u, SettingsOn(u, Required(u)))]) :
              m \in Names \ {<<"alpha">>}, t \in NetTypes, u \in NetTypes}

NoCatalog == Doc("none", NoNets)
\* no function call under way
NoCalc == [op |-> "none"]

\* modes of a file
Mode0600 == 384
Mode0644 == 420

\* the directory global/opensm/pkeys when no daemon of the model reads it:
\* its change index, its children, the children it had at each index so far
\* and the index of the last change made while the daemon was in a cycle
NoDir == [index |-> 0, children |-> <<>>, past |-> <<>>, busy |-> 0]
\* a partition file: whether it is whole, the blocks it holds and the
\* listing it was rendered from (asof, its index; snap, its children)
NoFile == [complete |-> TRUE, blocks |-> {}, asof |-> -1, snap |-> <<>>]
\* pkey_daemon when it does not run
NoDaemon == [pc |-> "off", last_index |-> -1, ret |-> <<>>, pkeys |-> <<>>,
             tmp |-> NoFile, file |-> NoFile, mode |-> Mode0644,
             samefs |-> TRUE, hups |-> -1, replaced |-> -1]
NotLoaded ==
    [pc |-> "idle", raised |-> "", conf |-> NoNets, todo |-> {},
     nets |-> <<>>]

\* VNetworkConfig.load, lines 257-263: open the file and parse the YAML
load_open ==
    /\ loaded.pc = "start"
    /\ loaded' = IF catalog.kind \in {"unreadable", "malformed"}
                 THEN [loaded EXCEPT !.pc = "done",
                          !.raised = "InvalidConfigurationError"]
                 ELSE [loaded EXCEPT !.pc = "parsed"]
    /\ UNCHANGED <<ntype, cfg, vms, faults, live, host_device, pkey_try,
                   catalog, calc,
                   pkeydir, smd, kern, proc,
                   kvVars, other, hist>>

\* lines 265-284: validate; the first error reported is turned into the
\* configuration error, after its message is built from err.path[0]
load_validate ==
    /\ loaded.pc = "parsed"
    /\ IF Errors(catalog) = {}
       THEN loaded' = [loaded EXCEPT
                   !.pc = IF DOMAIN catalog.nets = {} THEN "done"
                          ELSE "validated",
                   !.conf = Validated(catalog),
                   !.todo = DOMAIN catalog.nets]
       ELSE \E err \in Errors(catalog) :
                loaded' = [loaded EXCEPT !.pc = "done",
                       !.raised = IF Len(err.path) = 0 THEN "IndexError"
                                  ELSE "InvalidConfigurationError"]
    /\ UNCHANGED <<ntype, cfg, vms, faults, live, host_device, pkey_try,
                   catalog, calc,
                   pkeydir, smd, kern, proc,
                   kvVars, other, hist>>

\* lines 286-289: one iteration of the loop over the entries
load_create ==
    /\ loaded.pc = "validated"
    /\ \E n \in loaded.todo :
        LET e == loaded.conf[n]
            made == create(e.type, n, e.settings)
        IN  loaded' =
              IF ~e.has_type \/ ~e.has_settings
              THEN [loaded EXCEPT !.pc = "done", !.raised = "KeyError"]
              ELSE IF made.raised # ""
              THEN [loaded EXCEPT !.pc = "done", !.raised = made.raised]
              ELSE [loaded EXCEPT
                      !.pc = IF loaded.todo = {n} THEN "done" ELSE "validated",
                      !.todo = @ \ {n},
                      !.nets = [m \in DOMAIN loaded.nets \cup {n} |->
                                   IF m = n THEN made.net ELSE loaded.nets[m]]]
    /\ UNCHANGED <<ntype, cfg, vms, faults, live, host_device, pkey_try,
                   catalog, calc,
                   pkeydir, smd, kern, proc,
                   kvVars, other, hist>>

InitRest ==
    /\ vms \in VmLists
    /\ kern = [h \in Hosts |-> CleanKernel]
    /\ proc = [h \in Hosts |-> StartProc]
    /\ record = [h \in Hosts |-> NoRec]
    /\ label = NoLabel
    /\ guids = <<>>
    /\ rnat = <<>>
    /\ opensm = <<>>
    /\ other = [o \in Others |->
                  [pc |-> "idle", idx |-> -1, snap |-> {}, rounds |-> 0]]
    /\ catalog = NoCatalog
    /\ loaded = NotLoaded
    /\ calc = NoCalc
    /\ pkey_try = [h \in Hosts |-> NoTry]
    /\ pkeydir = NoDir
    /\ smd = NoDaemon

\* no id of the type is allocated when the job starts
InitCommon ==
    /\ InitRest
    /\ bitmap = {}
    /\ hist = [held |-> {}, freed |-> {}, njob |-> 0, dup |-> FALSE]

\* one node of the job runs the lifecycle of a network of any type; the
\* external commands of alloc_node_resources may fail
Init ==
    /\ ntype \in NetTypes
    /\ cfg \in (IF ntype = "nat" THEN NatCfgs ELSE {NoNatCfg})
    /\ host_device \in (IF ntype \in {"hostib", "ib"} THEN Devices
                        ELSE {NoDevice})
    /\ faults = TRUE
    /\ live = {0}
    /\ InitCommon

Next ==
    \E h \in Hosts :
        \/ init_node(h)
        \/ alloc_begin(h)
        \/ bridged_alloc_vm(h)
        \/ nat_alloc_vm(h)
        \/ genericpci_alloc_vm(h)
        \/ hostib_alloc_vm(h)
        \/ cluster_alloc_begin(h)
        \/ ida_read(h)
        \/ ida_cas(h)
        \/ ida_publish(h)
        \/ pv_alloc_vm(h)
        \/ guid_write(h)
        \/ guid_collect(h)
        \/ ib_alloc_vm(h)
        \/ ib_set_pkey(h)
        \/ free_node_resources(h)
        \/ free_ida_read(h)
        \/ free_ida_cas(h)
        \/ cleanup_node(h)

Spec == Init /\ [][Next]_vars

\* the batch system calls alloc_node_resources, or free_node_resources, a
\* second time on a host where the first call returned
alloc_again(h) ==
    /\ h \in live
    /\ proc[h].pc = "alloced"
    /\ proc[h].raised = {}
    /\ proc[h].reallocs + proc[h].refrees < MaxReruns
    /\ proc' = [proc EXCEPT ![h] =
                  [@ EXCEPT !.pc = "inited", !.reallocs = @ + 1]]
    /\ UNCHANGED <<jobVars, kern, kvVars, other, hist>>

free_again(h) ==
    /\ h \in live
    /\ proc[h].pc = "freed"
    /\ proc[h].raised = {}
    /\ proc[h].reallocs + proc[h].refrees < MaxReruns
    /\ proc' = [proc EXCEPT ![h] =
                  [@ EXCEPT !.pc = "alloced", !.refrees = @ + 1]]
    /\ UNCHANGED <<jobVars, kern, kvVars, other, hist>>

NextRerun ==
    \/ Next
    \/ \E h \in Hosts : alloc_again(h)
    \/ \E h \in Hosts : free_again(h)

SpecRerun == Init /\ [][NextRerun]_vars

\* the batch system runs the later phases on a host where
\* alloc_node_resources was not run
skip_alloc(h) ==
    /\ h \in live
    /\ proc[h].pc = "inited"
    /\ proc[h].reallocs = 0
    /\ proc' = [proc EXCEPT ![h].pc = "alloced"]
    /\ UNCHANGED <<jobVars, kern, kvVars, other, hist>>

\* load_node_resources of every type: the record is loaded at the first
\* local VM of the network, and each such VM gets the interface its entry
\* describes (vm.add_eth_if / vm.add_vfio_if); net_res[vm_label] raises
\* KeyError for a VM without entry
load_node_resources(h) ==
    /\ h \in live
    /\ proc[h].pc = "alloced"
    /\ ~proc[h].launched
    /\ LET R == record[h]
           B == {i \in LocalIdx(h) : ~HasVm(R, vms[i])}
           V == Visited(h, B)
       IN  proc' = [proc EXCEPT ![h] =
             IF LocalIdx(h) = {}
             THEN [@ EXCEPT !.launched = TRUE, !.kvread = FALSE]
             ELSE IF no_data(R)
             THEN Raised([@ EXCEPT !.launched = TRUE, !.kvread = TRUE,
                                   !.err = UnableToLoad], "load")
             ELSE IF B # {}
             THEN Raised([@ EXCEPT !.launched = TRUE, !.kvread = TRUE,
                             !.err = OtherError,
                             !.ifs = {<<vms[i].rank,
                                        R.vm[_vm_res_label(vms[i])]>> :
                                      i \in V}], "load")
             ELSE [@ EXCEPT !.launched = TRUE, !.kvread = TRUE,
                       !.ifs = {<<vms[i].rank,
                                  R.vm[_vm_res_label(vms[i])]>> :
                                i \in V}]]
    /\ UNCHANGED <<jobVars, kern, kvVars, other, hist>>

NextLaunch ==
    \/ Next
    \/ \E h \in Hosts : skip_alloc(h)
    \/ \E h \in Hosts : load_node_resources(h)

SpecLaunch == Init /\ [][NextLaunch]_vars

\* the registry loads one catalog file; no lifecycle process runs
InitLoad ==
    /\ catalog \in Catalogs
    /\ loaded = [NotLoaded EXCEPT !.pc = "start"]
    /\ calc = NoCalc
    /\ pkey_try = [h \in Hosts |-> NoTry]
    /\ pkeydir = NoDir
    /\ smd = NoDaemon
    /\ ntype = "bridged"
    /\ cfg = NoNatCfg
    /\ host_device = NoDevice
    /\ vms = <<>>
    /\ faults = FALSE
    /\ live = {}
    /\ kern = [h \in Hosts |-> CleanKernel]
    /\ proc = [h \in Hosts |-> StartProc]
    /\ record = [h \in Hosts |-> NoRec]
    /\ label = NoLabel
    /\ guids = <<>>
    /\ rnat = <<>>
    /\ opensm = <<>>
    /\ bitmap = {}
    /\ other = [o \in Others |->
                  [pc |-> "idle", idx |-> -1, snap |-> {}, rounds |-> 0]]
    /\ hist = [held |-> {}, freed |-> {}, njob |-> 0, dup |-> FALSE]

NextLoad ==
    \/ load_open
    \/ load_validate
    \/ load_create

SpecLoad == InitLoad /\ [][NextLoad]_vars

\* the state of the hosts and of the key-value store when no process runs
IdleState ==
    /\ faults = FALSE
    /\ live = {}
    /\ kern = [h \in Hosts |-> CleanKernel]
    /\ proc = [h \in Hosts |-> StartProc]
    /\ record = [h \in Hosts |-> NoRec]
    /\ label = NoLabel
    /\ guids = <<>>
    /\ rnat = <<>>
    /\ opensm = <<>>
    /\ bitmap = {}
    /\ other = [o \in Others |->
                  [pc |-> "idle", idx |-> -1, snap |-> {}, rounds |-> 0]]
    /\ hist = [held |-> {}, freed |-> {}, njob |-> 0, dup |-> FALSE]
    /\ catalog = NoCatalog
    /\ loaded = NotLoaded
    /\ pkey_try = [h \in Hosts |-> NoTry]

\* no lifecycle process runs and no catalog is loaded
IdleLifecycle ==
    /\ ntype = "bridged"
    /\ cfg = NoNatCfg
    /\ host_device = NoDevice
    /\ vms = <<>>
    /\ IdleState

\* mac-prefix values the schema accepts: one to four bytes
MacPrefixes ==
    {<<5, 2>>, <<0, 0, Colon, 15, 15>>, <<5, 2, Colon, 5, 4, Colon, 0, 0>>,
     <<5, 2, Colon, 5, 4, Colon, 0, 0, Colon, 10, 11>>}
\* VM ranks around the powers of 16
MacRanks == {0, 1, 15, 16, 255, 256, 4095, 4096, 65535, 65536, 1048576,
             16777215, 16777216, 2147483647}

\* _gen_vm_hwaddr is called for two VMs of a pv network
InitMac ==
    /\ IdleLifecycle
    /\ pkeydir = NoDir
    /\ smd = NoDaemon
    /\ calc \in {[op |-> "hwaddr", pc |-> "start", prefix |-> p,
                   r1 |-> a, r2 |-> b, out |-> <<>>] :
                      p \in MacPrefixes, a \in MacRanks, b \in MacRanks}

gen_hwaddr_call ==
    /\ calc.op = "hwaddr"
    /\ calc.pc = "start"
    /\ calc' = [calc EXCEPT !.pc = "done",
                   !.out = <<gen_vm_hwaddr(calc.prefix, calc.r1),
                             gen_vm_hwaddr(calc.prefix, calc.r2)>>]
    /\ UNCHANGED <<ntype, cfg, vms, faults, live, host_device, pkey_try,
                   catalog,
                   loaded, pkeydir, smd, kern, proc, kvVars, other, hist>>

SpecMac == InitMac /\ [][gen_hwaddr_call]_vars

\* ------------------------------------------------------ device ids by name
\* a device name is the sequence of its characters
IsDigit(c) == c \in {"0", "1", "2", "3", "4", "5", "6", "7", "8", "9"}
DigitVal(c) ==
    CASE c = "0" -> 0 [] c = "1" -> 1 [] c = "2" -> 2 [] c = "3" -> 3
      [] c = "4" -> 4 [] c = "5" -> 5 [] c = "6" -> 6 [] c = "7" -> 7
      [] c = "8" -> 8 [] c = "9" -> 9

\* int() of the digits a string starts with ("(\d+)" takes all of them)
RECURSIVE LeadingInt(_, _)
LeadingInt(str, acc) ==
    IF str = <<>> \/ ~IsDigit(Head(str)) THEN acc
    ELSE LeadingInt(Tail(str), 10 * acc + DigitVal(Head(str)))

\* id_from_dev_name: re.match(prefix + "(\d+)", devname), for a prefix
\* without special characters
id_from_dev_name(prefix, devname) ==
    IF /\ Len(devname) > Len(prefix)
       /\ SubSeq(devname, 1, Len(prefix)) = prefix
       /\ IsDigit(devname[Len(prefix) + 1])
    THEN LeadingInt(SubSeq(devname, Len(prefix) + 1, Len(devname)), 0)
    ELSE -1

\* find_used_dev_ids: one id per matching entry of /sys/devices/virtual/net,
\* kept here with the name it comes from
find_used_dev_ids(prefix, names) ==
    {n \in names : id_from_dev_name(prefix, n) # -1}

\* sorted(used_ids)[pos], for pos counted from 0
SortedAt(prefix, U, pos) ==
    Min({v \in {id_from_dev_name(prefix, n) : n \in U} :
           Cardinality({n \in U : id_from_dev_name(prefix, n) <= v})
               >= pos + 1})

\* the loop is left out: the number of used ids is returned
dev_id_count(prefix, names) ==
    Cardinality(find_used_dev_ids(prefix, names))
\* find_free_dev_id over the names of the devices that exist: the first
\* position below the id sorted there, or len(used_ids)
dev_id_free(prefix, names) ==
    LET U == find_used_dev_ids(prefix, names)
        hits == {pos \in 0 .. Cardinality(U) - 1 :
                    pos < SortedAt(prefix, U, pos)}
    IN IF hits # {} THEN Min(hits) ELSE Cardinality(U)

\* the configured prefix and the devices that may exist on the host
TapPrefix == <<"t", "p">>
DevNames ==
    {<<"t", "p", "0">>, <<"t", "p", "1">>, <<"t", "p", "2">>,
     <<"t", "p", "0", "0">>, <<"t", "p", "0", "1">>, <<"t", "p", "1", "0">>,
     <<"t", "p", "1", ".", "7">>, <<"t", "p">>, <<"t", "p", "x", "3">>,
     <<"b", "r", "0">>}

InitDev ==
    /\ IdleLifecycle
    /\ pkeydir = NoDir
    /\ smd = NoDaemon
    /\ calc \in {[op |-> "free_id", pc |-> "start", names |-> N, out |-> -1] :
                      N \in SUBSET DevNames}

find_free_dev_id_call ==
    /\ calc.op = "free_id"
    /\ calc.pc = "start"
    /\ calc' = [calc EXCEPT !.pc = "done",
                   !.out = dev_id_free(TapPrefix, calc.names)]
    /\ UNCHANGED <<ntype, cfg, vms, faults, live, host_device, pkey_try,
                   catalog,
                   loaded, pkeydir, smd, kern, proc, kvVars, other, hist>>

SpecDev == InitDev /\ [][find_free_dev_id_call]_vars

\* ------------------------------------------------------------- pkey_daemon
\* A child of global/opensm/pkeys is named by the characters that follow
\* "<pkey_path>/0x": a hexadecimal digit by its value, any other character
\* by Colon.  alloc_node_resources names the child of a partition
\* str(hex(my_pkey)).
PkeyName(pkey) == HexDigits(pkey)
JunkName == <<Colon>>

\* the name is one str(hex(.)) gives to a 16-bit partition key
IsPkeyName(name) ==
    /\ Len(name) \in 1 .. 4
    /\ \A i \in 1 .. Len(name) : name[i] \in 0 .. 15
    /\ Len(name) > 1 => name[1] # 0

\* re.match(r'{0}/(0x\d\d\d\d)$'.format(pkey_path), child.key)
key_matches(name) ==
    /\ Len(name) = 4
    /\ \A i \in 1 .. 4 : name[i] \in 0 .. 9

\* The value of a child: whether yaml.safe_load parses it, the fields of
\* the object it yields and the GUID lists it carries (by a tag).
PkeyFields == {"vf_guids", "host_guids"}
PkeyEntry(parses, fields, tag) ==
    [parses |-> parses, fields |-> fields, guids |-> tag]
\* jsonschema.validate(config, pkey_entry_schema): both lists are required
pkey_entry_valid(config) == PkeyFields \subseteq config.fields

ChildNames == {PkeyName(_min_pkey), PkeyName(_min_pkey + 10), JunkName}
EntryValues == {PkeyEntry(TRUE, PkeyFields, 1), PkeyEntry(TRUE, PkeyFields, 2),
                PkeyEntry(FALSE, {}, 0), PkeyEntry(TRUE, {"vf_guids"}, 1)}
\* the directory when the daemon starts
StartDirs ==
    {<<>>,
     (PkeyName(_min_pkey) :> PkeyEntry(TRUE, PkeyFields, 1))
        @@ (JunkName :> PkeyEntry(TRUE, PkeyFields, 2))}

\* wait_key_index(.., last_index): returns once the directory has changed
\* after the listing whose index is last_index
wait_from_now(last_index) == pkeydir.index
wait_from(last_index) == last_index

\* the directory after a write or a delete that leaves it with children d
Changed(d) ==
    [index |-> pkeydir.index + 1,
     children |-> d,
     past |-> Append(pkeydir.past, d),
     busy |-> IF smd.pc \in {"read", "wait"} THEN pkeydir.busy
              ELSE pkeydir.index + 1]

\* a job or an administrator writes or deletes a child of the directory
dir_change ==
    /\ smd.pc # "off"
    /\ pkeydir.index < MaxChanges
    /\ \E n \in ChildNames :
          \/ \E v \in EntryValues :
                /\ (n \in DOMAIN pkeydir.children => pkeydir.children[n] # v)
                /\ pkeydir' = Changed((n :> v) @@ pkeydir.children)
          \/ /\ n \in DOMAIN pkeydir.children
             /\ pkeydir' = Changed([k \in DOMAIN pkeydir.children \ {n} |->
                                        pkeydir.children[k]])
    /\ UNCHANGED <<ntype, cfg, vms, faults, live, host_device, pkey_try,
                   catalog,
                   loaded, calc, smd, kern, proc, kvVars, other, hist>>

\* ret, last_index = batch.read_dir_index('global', 'opensm/pkeys')
pkd_read_dir ==
    /\ smd.pc = "read"
    /\ smd' = [smd EXCEPT !.pc = "validate", !.ret = pkeydir.children,
                          !.last_index = pkeydir.index, !.pkeys = <<>>]
    /\ UNCHANGED <<ntype, cfg, vms, faults, live, host_device, pkey_try,
                   catalog,
                   loaded, calc, pkeydir, kern, proc, kvVars, other, hist>>

\* the loop over ret.children: a child is kept when its key matches and its
\* value parses and validates, and skipped with a warning otherwise
pkd_validate ==
    /\ smd.pc = "validate"
    /\ LET kept == {n \in DOMAIN smd.ret :
                       /\ key_matches(n)
                       /\ smd.ret[n].parses
                       /\ pkey_entry_valid(smd.ret[n])}
       IN smd' = [smd EXCEPT !.pc = "render",
                             !.pkeys = [n \in kept |-> smd.ret[n]]]
    /\ UNCHANGED <<ntype, cfg, vms, faults, live, host_device, pkey_try,
                   catalog,
                   loaded, calc, pkeydir, kern, proc, kvVars, other, hist>>

\* the template and one block per entry of pkeys are written to a temporary
\* file, which is closed
pkd_render ==
    /\ smd.pc = "render"
    /\ smd' = [smd EXCEPT !.pc = "move",
                  !.tmp = [complete |-> TRUE,
                           blocks |-> {<<n, smd.pkeys[n].guids>> :
                                          n \in DOMAIN smd.pkeys},
                           asof |-> smd.last_index,
                           snap |-> smd.ret]]
    /\ UNCHANGED <<ntype, cfg, vms, faults, live, host_device, pkey_try,
                   catalog,
                   loaded, calc, pkeydir, kern, proc, kvVars, other, hist>>

\* shutil.move(tmp.name, self._opensm_partition_cfg): a rename when the
\* temporary directory and the target are on one filesystem; otherwise the
\* target is opened for writing and the temporary file copied into it
pkd_move ==
    /\ smd.pc = "move"
    /\ \/ /\ smd.samefs
          /\ smd' = [smd EXCEPT !.pc = "chmod", !.file = smd.tmp,
                                !.mode = Mode0600,
                                !.replaced = smd.last_index]
       \/ /\ ~smd.samefs
          /\ smd' = [smd EXCEPT !.pc = "copy",
                        !.file = [smd.tmp EXCEPT !.complete = FALSE,
                                                 !.blocks = {}]]
    /\ UNCHANGED <<ntype, cfg, vms, faults, live, host_device, pkey_try,
                   catalog,
                   loaded, calc, pkeydir, kern, proc, kvVars, other, hist>>

\* the copy of shutil.move ends: content and mode of the temporary file
pkd_copy ==
    /\ smd.pc = "copy"
    /\ smd' = [smd EXCEPT !.pc = "chmod", !.file = smd.tmp,
                          !.mode = Mode0600, !.replaced = smd.last_index]
    /\ UNCHANGED <<ntype, cfg, vms, faults, live, host_device, pkey_try,
                   catalog,
                   loaded, calc, pkeydir, kern, proc, kvVars, other, hist>>

\* os.chmod(cfg, S_IRUSR | S_IWUSR | S_IROTH | S_IRGRP)
pkd_chmod ==
    /\ smd.pc = "chmod"
    /\ smd' = [smd EXCEPT !.pc = "sighup", !.mode = Mode0644]
    /\ UNCHANGED <<ntype, cfg, vms, faults, live, host_device, pkey_try,
                   catalog,
                   loaded, calc, pkeydir, kern, proc, kvVars, other, hist>>

\* SIGHUP to every process named as the opensm daemon
pkd_sighup ==
    /\ smd.pc = "sighup"
    /\ smd' = [smd EXCEPT !.pc = "wait", !.hups = smd.last_index]
    /\ UNCHANGED <<ntype, cfg, vms, faults, live, host_device, pkey_try,
                   catalog,
                   loaded, calc, pkeydir, kern, proc, kvVars, other, hist>>

\* batch.wait_key_index('global', 'opensm/pkeys', last_index, timeout=0)
pkd_wait ==
    /\ smd.pc = "wait"
    /\ pkeydir.index > wait_from(smd.last_index)
    /\ smd' = [smd EXCEPT !.pc = "read"]
    /\ UNCHANGED <<ntype, cfg, vms, faults, live, host_device, pkey_try,
                   catalog,
                   loaded, calc, pkeydir, kern, proc, kvVars, other, hist>>

pkey_daemon ==
    \/ pkd_read_dir
    \/ pkd_validate
    \/ pkd_render
    \/ pkd_move
    \/ pkd_copy
    \/ pkd_chmod
    \/ pkd_sighup
    \/ pkd_wait

\* the daemon starts on an existing partition file; the temporary directory
\* is on the filesystem of the target or on another one
InitDaemon ==
    /\ IdleLifecycle
    /\ calc = NoCalc
    /\ pkeydir \in {[index |-> 0, children |-> d, past |-> <<d>>,
                      busy |-> 0] : d \in StartDirs}
    /\ smd \in {[NoDaemon EXCEPT !.pc = "read", !.samefs = b] :
                   b \in BOOLEAN}

NextDaemon ==
    \/ dir_change
    \/ pkd_read_dir
    \/ pkd_validate
    \/ pkd_render
    \/ pkd_move
    \/ pkd_copy
    \/ pkd_chmod
    \/ pkd_sighup
    \/ pkd_wait

\* the daemon runs while the directory changes
SpecDaemon == InitDaemon /\ [][NextDaemon]_vars
\* pkey_daemon is the `while True` loop of a process of its own
SpecDaemonFair == SpecDaemon /\ WF_vars(pkey_daemon)

\* --------------------------------------------------- firewall rules, in order
\* A table of the firewall is the sequence of its rules (a rule appended
\* twice is in it twice).
ipt_rule_exists(table, rule) == \E i \in 1 .. Len(table) : table[i] = rule
\* "iptables -A" whether or not the rule is there
ipt_append_always(table, rule) == Append(table, rule)
ipt_append_rule_idemp(table, rule) ==
    IF ipt_rule_exists(table, rule) THEN table ELSE Append(table, rule)
\* "iptables -D": the first rule that matches goes; the command fails when
\* none does
ipt_delete_rule(table, rule) ==
    LET i == CHOOSE k \in 1 .. Len(table) :
                /\ table[k] = rule
                /\ \A m \in 1 .. k - 1 : table[m] # rule
    IN [k \in 1 .. Len(table) - 1 |-> IF k < i THEN table[k] ELSE table[k + 1]]
ipt_delete_rule_idemp(table, rule) ==
    IF ipt_rule_exists(table, rule)
    THEN [table |-> ipt_delete_rule(table, rule), failed |-> FALSE]
    ELSE [table |-> table, failed |-> FALSE]

\* the rules of VNATNetwork.init_node in the order of its calls
NatInitOrder ==
    <<"ssh_new", "rel_est_in",
      IF cfg.allow_outbound THEN "out_accept" ELSE "out_rel_est",
      "masq_tcp", "masq_udp", "masq_all">>
NatInitRule(k) == CHOOSE r \in NatInitRules : r.kind = NatInitOrder[k]
\* a rule of the host that no network installs
ForeignRule == Rule("FORWARD", "foreign", 0, 0, 0)
\* the firewall when init_node first runs: nothing of the network, or rules
\* left by an earlier run
StartTables ==
    {<<>>, <<ForeignRule>>, <<NatInitRule(1)>>,
     <<NatInitRule(4), ForeignRule, NatInitRule(2)>>}

InitIpt ==
    /\ ntype = "nat"
    /\ cfg \in {c \in NatCfgs : c.rnat = 0 /\ c.nat_bits = 24}
    /\ host_device = NoDevice
    /\ vms = <<>>
    /\ IdleState
    /\ pkeydir = NoDir
    /\ smd = NoDaemon
    /\ calc \in {[op |-> "nat_init", pc |-> 0, table |-> t, runs |-> 1,
                   crashes |-> 0, deleted |-> FALSE, failed |-> FALSE,
                   absent |-> FALSE, changed |-> FALSE] : t \in StartTables}

\* the next call of ipt_append_rule_idemp of init_node
ipt_init_step ==
    /\ calc.op = "nat_init"
    /\ calc.pc < Len(NatInitOrder)
    /\ calc' = [calc EXCEPT
          !.pc = @ + 1,
          !.table = ipt_append_rule_idemp(@, NatInitRule(calc.pc + 1))]
    /\ UNCHANGED <<ntype, cfg, vms, faults, live, host_device, pkey_try,
                   catalog, loaded, pkeydir, smd, kern, proc, kvVars, other,
                   hist>>

\* init_node is run again: after it returned, or after the process died
\* between two of its calls
ipt_init_again ==
    /\ calc.op = "nat_init"
    /\ calc.runs < MaxInits
    /\ calc' = [calc EXCEPT
          !.pc = 0, !.runs = @ + 1, !.deleted = FALSE,
          !.crashes = IF calc.pc < Len(NatInitOrder) THEN 1 ELSE @]
    /\ UNCHANGED <<ntype, cfg, vms, faults, live, host_device, pkey_try,
                   catalog, loaded, pkeydir, smd, kern, proc, kvVars, other,
                   hist>>

\* ipt_delete_rule_idemp is called on a rule, once between two runs of
\* init_node
ipt_delete_call ==
    /\ calc.op = "nat_init"
    /\ calc.pc \in {0, Len(NatInitOrder)}
    /\ ~calc.deleted
    /\ \E rule \in NatInitRules \cup {ForeignRule} :
          LET d == ipt_delete_rule_idemp(calc.table, rule) IN
          /\ calc' = [calc EXCEPT
                !.table = d.table,
                !.pc = 0,
                !.deleted = TRUE,
                !.failed = @ \/ d.failed,
                !.absent = @ \/ ~ipt_rule_exists(calc.table, rule),
                !.changed = @ \/ (/\ ~ipt_rule_exists(calc.table, rule)
                                  /\ d.table # calc.table)]
    /\ UNCHANGED <<ntype, cfg, vms, faults, live, host_device, pkey_try,
                   catalog, loaded, pkeydir, smd, kern, proc, kvVars, other,
                   hist>>

NextIpt ==
    \/ ipt_init_step
    \/ ipt_init_again
    \/ ipt_delete_call

\* init_node of a nat network is run again and again on a host
SpecIpt == InitIpt /\ [][NextIpt]_vars

\* ------------------------------------------------- the DHCP/DNS server of nat
\* The NAT networks of a host, each with its own bridge (a network is named
\* by the id of its bridge) and vm-ip; every VNATNetwork object has the same
\* _dnsmasq_pid_filename.
NatNets == {NatBridge, NatBridge + 1}
NoPid == -1
NoDns == [op |-> "dnsmasq", brs |-> {}, pidfile |-> NoPid, servers |-> {},
          nextpid |-> 1, last |-> -1, runs |-> 0]

\* has_dnsmasq: the pid file exists and os.kill(pid, 0) finds a process
has_dnsmasq(d) == \E sv \in d.servers : sv.pid = d.pidfile
\* kill_dnsmasq: SIGTERM to the pid of the file, and the file is removed
kill_dnsmasq(d) ==
    [d EXCEPT !.servers = {sv \in @ : sv.pid # d.pidfile},
              !.pidfile = NoPid]
\* "/usr/sbin/dnsmasq --pid-file=<file> --interface=<bridge> ...": the new
\* server writes its pid to the file
start_dnsmasq(d, n) ==
    [d EXCEPT !.servers = @ \cup {[pid |-> d.nextpid, bridge |-> n,
                                   vm_ip |-> n]},
              !.pidfile = d.nextpid,
              !.nextpid = @ + 1]

\* VNATNetwork.init_node of network n, up to the start of the server
dns_init_node(n) ==
    /\ calc.op = "dnsmasq"
    /\ calc.runs <= MaxInits
    /\ LET d1 == IF n \in calc.brs THEN calc
                 ELSE kill_dnsmasq([calc EXCEPT !.brs = @ \cup {n}])
           d2 == IF has_dnsmasq(d1) THEN d1 ELSE start_dnsmasq(d1, n)
       IN calc' = [d2 EXCEPT !.last = n, !.runs = @ + 1]
    /\ UNCHANGED <<ntype, cfg, vms, faults, live, host_device, pkey_try,
                   catalog, loaded, pkeydir, smd, kern, proc, kvVars, other,
                   hist>>

\* VNATNetwork.cleanup_node of network n: ovs_del_bridge, kill_dnsmasq
dns_cleanup_node(n) ==
    /\ calc.op = "dnsmasq"
    /\ n \in calc.brs
    /\ calc' = [kill_dnsmasq([calc EXCEPT !.brs = @ \ {n}]) EXCEPT
                   !.last = -1]
    /\ UNCHANGED <<ntype, cfg, vms, faults, live, host_device, pkey_try,
                   catalog, loaded, pkeydir, smd, kern, proc, kvVars, other,
                   hist>>

\* a server dies; its pid file stays
dns_server_dies ==
    /\ calc.op = "dnsmasq"
    /\ \E sv \in calc.servers :
          calc' = [calc EXCEPT !.servers = @ \ {sv}, !.last = -1]
    /\ UNCHANGED <<ntype, cfg, vms, faults, live, host_device, pkey_try,
                   catalog, loaded, pkeydir, smd, kern, proc, kvVars, other,
                   hist>>

InitDns ==
    /\ ntype = "nat"
    /\ cfg \in {c \in NatCfgs : c.rnat = 0 /\ c.nat_bits = 24}
    /\ host_device = NoDevice
    /\ vms = <<>>
    /\ IdleState
    /\ pkeydir = NoDir
    /\ smd = NoDaemon
    /\ calc = NoDns

NextDns ==
    \/ \E n \in NatNets : dns_init_node(n)
    \/ \E n \in NatNets : dns_cleanup_node(n)
    \/ dns_server_dies

\* init_node and cleanup_node of the NAT networks of a host, one call at a
\* time
SpecDns == InitDns /\ [][NextDns]_vars

\* ------------------------------------------------------------- get_license
\* settings.get("license", None): the key is absent, or it holds a string;
\* the schema asks for type string only, so the empty string is accepted
Licenses == {[set |-> FALSE, name |-> ""], [set |-> TRUE, name |-> ""],
             [set |-> TRUE, name |-> "ib_license"]}

\* "if self._license_name:": None and the empty string are false
license_truth(lic) == lic.set /\ lic.name # ""

\* the license is returned whether or not a VM uses the network
get_license_unused(t, lic, V) ==
    IF t = "ib" /\ license_truth(lic) THEN <<lic.name>> ELSE <<>>
\* VIBNetwork.get_license for ib; VNetwork.get_license, which the five other
\* types inherit, returns []
get_license(t, lic, V) ==
    IF t = "ib"
    THEN IF license_truth(lic) /\ (\E i \in 1 .. Len(V) : V[i].net)
         THEN <<lic.name>> ELSE <<>>
    ELSE <<>>

InitLicense ==
    /\ ntype \in NetTypes
    /\ cfg = NoNatCfg
    /\ host_device = NoDevice
    /\ vms \in VmLists
    /\ IdleState
    /\ pkeydir = NoDir
    /\ smd = NoDaemon
    /\ calc \in {[op |-> "license", pc |-> "start", license |-> l,
                  out |-> <<>>] : l \in Licenses}

get_license_call ==
    /\ calc.op = "license"
    /\ calc.pc = "start"
    /\ calc' = [calc EXCEPT !.pc = "done",
                   !.out = get_license(ntype, calc.license, vms)]
    /\ UNCHANGED <<ntype, cfg, vms, faults, live, host_device, pkey_try,
                   catalog, loaded, pkeydir, smd, kern, proc, kvVars, other,
                   hist>>

\* get_license of a network of any type, license setting and VM list
SpecLicense == InitLicense /\ [][get_license_call]_vars

\* ------------------------------------------- rendering of a partition entry
\* the second argument of both calls of chunks in pkey_daemon
chunk_size == 128

\* chunks without the trailing chunk of fewer than n elements
RECURSIVE chunks_full(_, _)
chunks_full(array, n) ==
    IF Len(array) < n THEN <<>>
    ELSE <<SubSeq(array, 1, n)>> \o
         chunks_full(SubSeq(array, n + 1, Len(array)), n)
\* chunks(array, n): array[i:i+n] for i in range(0, len(array), n)
RECURSIVE chunks(_, _)
chunks(array, n) ==
    IF Len(array) = 0 THEN <<>>
    ELSE IF Len(array) <= n THEN <<array>>
    ELSE <<SubSeq(array, 1, n)>> \o
         chunks(SubSeq(array, n + 1, Len(array)), n)

\* the lines written for one entry of pkeys: one "PK_<pkey>=<pkey> , ipoib,
\* indx0 : <guid>=full, ... ;" line per chunk of vf_guids, then one
\* "PK_<pkey>=<pkey> , ipoib: <guid>=full, ... ;" line per chunk of host_guids
render_entry(config) ==
    LET vf == chunks(config.vf_guids, chunk_size)
        ho == chunks(config.host_guids, chunk_size)
    IN [i \in 1 .. Len(vf) |-> [part |-> "indx0", guids |-> vf[i]]] \o
       [i \in 1 .. Len(ho) |-> [part |-> "host", guids |-> ho[i]]]

\* lengths of the GUID lists of the entries rendered
GuidCounts == {0, 1, 2, 127, 128, 129, 130, 255, 256, 257, 300}
\* n distinct GUIDs; the host GUIDs follow the VF GUIDs
GuidList(first, n) == [i \in 1 .. n |-> first + i]

InitRender ==
    /\ IdleLifecycle
    /\ pkeydir = NoDir
    /\ smd = NoDaemon
    /\ calc \in {[op |-> "render", pc |-> "start",
                  config |-> [vf_guids |-> GuidList(0, a),
                              host_guids |-> GuidList(1000, b)],
                  lines |-> <<>>] : a \in GuidCounts, b \in GuidCounts}

render_call ==
    /\ calc.op = "render"
    /\ calc.pc = "start"
    /\ calc' = [calc EXCEPT !.pc = "done",
                            !.lines = render_entry(calc.config)]
    /\ UNCHANGED <<ntype, cfg, vms, faults, live, host_device, pkey_try,
                   catalog, loaded, pkeydir, smd, kern, proc, kvVars, other,
                   hist>>

\* the block of one valid entry is rendered
SpecRender == InitRender /\ [][render_call]_vars

\* ------------------------------------ two jobs allocating on the same host
\* Two jobs of pv networks with the same bridge-prefix and tap-prefix, each
\* with one local VM, run alloc_node_resources on one host. Devices are
\* named by their ids; brs, taps and ports are those of the host.
Jobs == {1, 2}
DevIds == {0, 1}
NoJobStep == [pc |-> "find_bridge", bridge |-> -1, tap |-> -1,
              rec_bridge |-> -1, rec_tap |-> -1]

RaceUnchanged ==
    UNCHANGED <<ntype, cfg, vms, faults, live, host_device, pkey_try,
                catalog, loaded, pkeydir, smd, kern, proc, kvVars, other,
                hist>>

\* bridge_name = find_free_dev_name(self._bridge_prefix)
race_find_bridge(j) ==
    /\ calc.op = "race"
    /\ calc.job[j].pc = "find_bridge"
    /\ calc' = [calc EXCEPT !.job[j].pc = "add_bridge",
                            !.job[j].bridge = find_free_dev_id(calc.brs)]
    /\ RaceUnchanged

\* ovs_add_bridge(bridge_name): ovs-vsctl --may-exist add-br
race_add_bridge(j) ==
    /\ calc.op = "race"
    /\ calc.job[j].pc = "add_bridge"
    /\ calc' = [calc EXCEPT !.job[j].pc = "find_tap",
                            !.brs = @ \cup {calc.job[j].bridge}]
    /\ RaceUnchanged

\* tap_name = find_free_dev_name(self._tap_prefix)
race_find_tap(j) ==
    /\ calc.op = "race"
    /\ calc.job[j].pc = "find_tap"
    /\ calc' = [calc EXCEPT !.job[j].pc = "create_tap",
                            !.job[j].tap = find_free_dev_id(calc.taps)]
    /\ RaceUnchanged

\* tun_create_tap(tap_name, tap_user): on a name that exists the command
\* either attaches to the persistent device and succeeds, or fails
race_create_tap(j) ==
    /\ calc.op = "race"
    /\ calc.job[j].pc = "create_tap"
    /\ \/ calc' = [calc EXCEPT !.job[j].pc = "add_port",
                               !.taps = @ \cup {calc.job[j].tap}]
       \/ /\ calc.job[j].tap \in calc.taps
          /\ calc' = [calc EXCEPT !.job[j].pc = "raised"]
    /\ RaceUnchanged

\* ovs_add_port(tap_name, bridge_name): ovs-vsctl add-port fails for a port
\* name the switch already has
race_add_port(j) ==
    /\ calc.op = "race"
    /\ calc.job[j].pc = "add_port"
    /\ IF calc.job[j].tap \in calc.ports
       THEN calc' = [calc EXCEPT !.job[j].pc = "raised"]
       ELSE calc' = [calc EXCEPT !.job[j].pc = "dump",
                                 !.ports = @ \cup {calc.job[j].tap}]
    /\ RaceUnchanged

\* the flows, then dump_resources(net_res) with tap_name and bridge_name
race_dump(j) ==
    /\ calc.op = "race"
    /\ calc.job[j].pc = "dump"
    /\ calc' = [calc EXCEPT !.job[j].pc = "done",
                            !.job[j].rec_bridge = calc.job[j].bridge,
                            !.job[j].rec_tap = calc.job[j].tap]
    /\ RaceUnchanged

InitRace ==
    /\ IdleLifecycle
    /\ pkeydir = NoDir
    /\ smd = NoDaemon
    /\ calc \in {[op |-> "race", brs |-> B, taps |-> T, ports |-> T,
                  job |-> [j \in Jobs |-> NoJobStep]] :
                     B \in SUBSET DevIds, T \in SUBSET DevIds}

NextRace ==
    \E j \in Jobs :
        \/ race_find_bridge(j)
        \/ race_add_bridge(j)
        \/ race_find_tap(j)
        \/ race_create_tap(j)
        \/ race_add_port(j)
        \/ race_dump(j)

\* every interleaving of the steps of the two jobs
SpecRace == InitRace /\ [][NextRace]_vars

\* ------------------------------------- the name of a partition's KV entry
\* values of min-pkey the schema accepts, and the indexes the allocator of a
\* range of sixteen keys hands out
MinPkeys == {1, 16, 4096, 8192, 32752}
PkeyIndexes == 0 .. 15

InitPkeyName ==
    /\ IdleLifecycle
    /\ pkeydir = NoDir
    /\ smd = NoDaemon
    /\ calc \in {[op |-> "pkey_name", pc |-> "start", min_pkey |-> m,
                  pkey_index |-> i, name |-> <<>>, accepted |-> FALSE] :
                     m \in MinPkeys, i \in PkeyIndexes}

\* the master: my_pkey = self._min_pkey + pkey_index, and the entry is
\* written under 'opensm/pkeys/' + str(hex(my_pkey))
pkey_write_key ==
    /\ calc.op = "pkey_name"
    /\ calc.pc = "start"
    /\ calc' = [calc EXCEPT !.pc = "written",
                   !.name = PkeyName(calc.min_pkey + calc.pkey_index)]
    /\ UNCHANGED <<ntype, cfg, vms, faults, live, host_device, pkey_try,
                   catalog, loaded, pkeydir, smd, kern, proc, kvVars, other,
                   hist>>

\* pkey_daemon: the re.match on the key of the child; a child that does not
\* match is skipped
pkey_filter_key ==
    /\ calc.op = "pkey_name"
    /\ calc.pc = "written"
    /\ calc' = [calc EXCEPT !.pc = "filtered",
                            !.accepted = key_matches(calc.name)]
    /\ UNCHANGED <<ntype, cfg, vms, faults, live, host_device, pkey_try,
                   catalog, loaded, pkeydir, smd, kern, proc, kvVars, other,
                   hist>>

NextPkeyName == pkey_write_key \/ pkey_filter_key

\* the key the master writes, then the filter of the daemon on that key
SpecPkeyName == InitPkeyName /\ [][NextPkeyName]_vars

\* ------------------------------------------------- the text of a port GUID
\* '{0:02x}'.format(n): the hexadecimal digits of n, zero-filled to two;
\* a number above 0xff keeps all its digits
format_02x(n) == zfill(HexDigits(n), 2)

\* the digits after '0x' of the string vm_get_guid (first = <<12, 0, 12, 12>>,
\* 'c0cc') or vm_get_node_guid ('d0cc') returns
guid_text(first, rank, pkey_id) ==
    first \o format_02x(pkey_id \div 256) \o format_02x(pkey_id % 256)
          \o <<0, 0>>
          \o format_02x(rank \div 256) \o format_02x(rank % 256)
          \o <<0, 0>>
vm_get_guid_text(rank, pkey_id) == guid_text(<<12, 0, 12, 12>>, rank, pkey_id)
vm_get_node_guid_text(rank, pkey_id) ==
    guid_text(<<13, 0, 12, 12>>, rank, pkey_id)

\* ranks of VMs and partition keys the functions are called with
GuidRanks == {0, 1, 255, 256, 65535, 65536}
GuidPkeys == {0, 255, 256, 32767, 65535}

InitGuid ==
    /\ IdleLifecycle
    /\ pkeydir = NoDir
    /\ smd = NoDaemon
    /\ calc \in {[op |-> "guid", pc |-> "start", r1 |-> a, p1 |-> b,
                  r2 |-> c, p2 |-> d, port |-> <<>>, node |-> <<>>] :
                     a \in GuidRanks, b \in GuidPkeys,
                     c \in GuidRanks, d \in GuidPkeys}

vm_get_guid_call ==
    /\ calc.op = "guid"
    /\ calc.pc = "start"
    /\ calc' = [calc EXCEPT !.pc = "done",
                   !.port = <<vm_get_guid_text(calc.r1, calc.p1),
                              vm_get_guid_text(calc.r2, calc.p2)>>,
                   !.node = <<vm_get_node_guid_text(calc.r1, calc.p1),
                              vm_get_node_guid_text(calc.r2, calc.p2)>>]
    /\ UNCHANGED <<ntype, cfg, vms, faults, live, host_device, pkey_try,
                   catalog, loaded, pkeydir, smd, kern, proc, kvVars, other,
                   hist>>

\* the GUIDs of two VMs, each in a partition
SpecGuid == InitGuid /\ [][vm_get_guid_call]_vars

\* every host of the job runs the lifecycle of a pv or ib network while
\* other jobs use the allocator of the type; no external command fails
InitCluster ==
    /\ ntype \in {"pv", "ib"}
    /\ cfg = NoNatCfg
    /\ host_device = (IF ntype = "ib" THEN Mlx5Dev ELSE NoDevice)
    /\ faults = FALSE
    /\ live = Hosts
    /\ InitCommon

JobStep(h) ==
    \/ init_node(h)
    \/ cluster_alloc_begin(h)
    \/ ida_read(h)
    \/ ida_cas(h)
    \/ ida_publish(h)
    \/ ida_wait(h)
    \/ pv_alloc_vm(h)
    \/ guid_write(h)
    \/ guid_collect(h)
    \/ ib_alloc_vm(h)
    \/ free_node_resources(h)
    \/ free_ida_read(h)
    \/ free_ida_cas(h)
    \/ cleanup_node(h)

OtherStep(o) ==
    \/ other_alloc_read(o)
    \/ other_alloc_cas(o)
    \/ other_free_read(o)
    \/ other_free_cas(o)

NextCluster ==
    \/ \E h \in Hosts : JobStep(h)
    \/ \E o \in Others : OtherStep(o)

SpecCluster == InitCluster /\ [][NextCluster]_vars

\* the client of the allocator that stands for the jobs started earlier
EarlierJobs == NumOthers + 1
\* the same, when jobs started earlier hold none, all but one or all of the
\* ids of the type
InitExhaust ==
    /\ ntype \in {"pv", "ib"}
    /\ cfg = NoNatCfg
    /\ host_device = (IF ntype = "ib" THEN Mlx5Dev ELSE NoDevice)
    /\ faults = FALSE
    /\ live = Hosts
    /\ InitRest
    /\ bitmap \in {{}, 0 .. ida_size - 2, 0 .. ida_size - 1}
    /\ hist = [held |-> {<<EarlierJobs, i>> : i \in bitmap}, freed |-> {},
               njob |-> 0, dup |-> FALSE]

SpecExhaust == InitExhaust /\ [][NextCluster]_vars

\* every host's process keeps running: a step it can take is eventually taken
SpecClusterFair == SpecCluster /\ \A h \in Hosts : WF_vars(JobStep(h))

\* ---------------------------------------------------------------- properties
AllocEnded(h) == proc[h].pc \in {"alloced", "free_ida_read", "free_ida_cas",
                                 "freed", "cleaned"}
FreeEnded(h) == proc[h].pc \in {"freed", "cleaned"}
AllocOk(h) == AllocEnded(h) /\ "alloc" \notin proc[h].raised

\* C1: for the IB type, after free_node_resources has run on the master host
\* of a job whose alloc_node_resources completed, the entry
\* global/opensm/pkeys/<pkey> is deleted, the pkey index is released to the
\* allocator and the key-value subtree of the network is removed.
C1_IbMasterFreeReleases ==
    \A h \in live :
        (/\ ntype = "ib"
         /\ FreeEnded(h)
         /\ AllocOk(h)
         /\ record[h].present
         /\ record[h].glob.master)
        => /\ record[h].glob.pkey \notin DOMAIN opensm
           /\ <<JobClient, record[h].glob.pkey_index>> \notin hist.held
           /\ record[h].glob.pkey_index \notin bitmap
           /\ guids = <<>>

\* the devices of the host that the record of the host names
RecordedTaps(h) ==
    IF ntype \in {"bridged", "pv", "nat"}
    THEN {record[h].vm[r].tap_name : r \in DOMAIN record[h].vm} ELSE {}
RecordedPci(h) ==
    CASE ntype = "genericpci" ->
            {record[h].vm[r].dev_addr : r \in DOMAIN record[h].vm}
      [] ntype \in {"hostib", "ib"} ->
            {record[h].vm[r].vf_addr : r \in DOMAIN record[h].vm}
      [] OTHER -> {}
RecordedBridges(h) ==
    IF ntype = "pv" /\ record[h].glob # <<>>
    THEN {record[h].glob.bridge_name} ELSE {}

\* C2: for every network type, when alloc_node_resources fails while
\* allocating a local VM, an allocation record holding the VMs already
\* allocated has been written before the error is re-raised, and every TAP,
\* bridge and passthrough binding created so far on the host is listed in it.
C2_PartialRecordOnFailure ==
    \A h \in live :
        (proc[h].pc = "alloced" /\ "alloc" \in proc[h].raised)
        => /\ record[h].present
           /\ kern[h].taps \subseteq RecordedTaps(h)
           /\ kern[h].vfio \subseteq RecordedPci(h)
           /\ (ntype = "pv" => kern[h].brs \subseteq RecordedBridges(h))

\* C3: for every network type and every point at which alloc_node_resources
\* can fail, the following free_node_resources and cleanup_node complete
\* without raising.
C3_FreeAfterFailedAllocSucceeds ==
    \A h \in live :
        (FreeEnded(h) /\ "alloc" \in proc[h].raised)
        => proc[h].raised \cap {"free", "cleanup"} = {}

\* what the lifecycle of the network has left on a host
Residue(K) == <<K.taps, K.brs, K.ports, K.flows, K.ipt, K.arp, K.vfio>>
NoResidue == <<{}, {}, {}, {}, {}, {}, {}>>

\* C4: for every network type and every valid configuration, after
\* init_node, alloc_node_resources, free_node_resources and cleanup_node have
\* run in that order on a host with no other job, no TAP, bridge, firewall
\* rule, flow entry, ARP entry or passthrough binding of the network remains.
C4_NothingLeftAfterCleanup ==
    \A h \in live :
        (proc[h].pc = "cleaned" /\ proc[h].raised = {})
        => Residue(kern[h]) = NoResidue

\* C5: under any interleaving of alloc_one calls of different jobs and of
\* free_one calls on the same bitmap, no index is handed out twice without a
\* free_one in between; the indices in use are set in the bitmap and a freed
\* index that nobody holds is clear, so a later alloc_one can return it.
C5_AllocatorNoDuplicates ==
    /\ ~hist.dup
    /\ \A e \in hist.held : e[2] \in bitmap
    /\ \A x \in hist.freed :
          (\A e \in hist.held : e[2] # x) => x \notin bitmap

\* an index that was freed is in use again
C5_FreedIndexReused == \E e \in hist.held : e[2] \in hist.freed

\* the tunnel ports of the job's bridges on host h
TunnelPorts(h) == {p \in kern[h].ports : p.key # NoKey}

\* C6: in the pv type a tunnel id is in use by the bridges of at most one
\* job at every moment: free_one on the job's tunnel id never happens while
\* a host of the job still has a bridge with tunnel ports keyed by that id.
C6_TunnelIdExclusive ==
    [][\A x \in bitmap \ bitmap' :
          (ntype = "pv" /\ <<JobClient, x>> \in hist.held)
          => \A h \in Hosts : \A p \in TunnelPorts(h) :
                p.key # tun_id_of(x)]_vars

AllNetHostsAlloced ==
    /\ net_hosts # {}
    /\ \A h \in net_hosts : proc[h].pc = "alloced" /\ record[h].present

\* C7: in the pv type, once alloc_node_resources has completed on every host
\* carrying a VM of the network, every host's record has the same
\* global.tun_id, it lies in [1024, 65535], and exactly one allocator index
\* was consumed for the job.
C7_PvOneTunnelId ==
    (ntype = "pv" /\ AllNetHostsAlloced)
    => /\ \A g, h \in net_hosts :
              record[g].glob.tun_id = record[h].glob.tun_id
       /\ \A h \in net_hosts :
              record[h].glob.tun_id \in 1024 .. 65535
       /\ hist.njob = 1

\* every host of a two-host pv network has written its record
C7_TwoHostsAlloced ==
    ntype = "pv" /\ AllNetHostsAlloced /\ Cardinality(net_hosts) = 2

\* the VMs of the network appear in the list by non-decreasing host rank
HostOrdered == \A i, j \in NetIdx : i < j => vms[i].host <= vms[j].host

C9_OpensmAfterAllGuids ==
    [][opensm' # opensm =>
         /\ net_hosts \subseteq DOMAIN guids
         /\ \A k \in DOMAIN opensm' \ DOMAIN opensm :
               /\ Len(opensm'[k].host_guids) = Cardinality(net_hosts)
               /\ Range(opensm'[k].host_guids)
                     = {get_phys_port_guid(h) : h \in net_hosts}
               /\ Len(opensm'[k].vf_guids) = Cardinality(NetIdx)
               /\ Range(opensm'[k].vf_guids)
                     = {vm_get_guid(vms[i], k) : i \in NetIdx}
               /\ Cardinality(Range(opensm'[k].vf_guids))
                     = Cardinality(NetIdx)]_vars

\* the master of a two-host IB network has written the record
C9_OpensmWrittenTwoHosts ==
    ntype = "ib" /\ Cardinality(net_hosts) = 2 /\ opensm # <<>>

AllocFailed == \E h \in Hosts : "alloc" \in proc[h].raised

\* C10: when every host carrying a VM of a pv or IB network runs
\* alloc_node_resources and nothing fails, under fair scheduling the call
\* eventually returns on every such host: a non-master waits only until the
\* master has published the index, and the IB master only until every
\* touched host has written its GUID.
C10_AllocReturnsEverywhere ==
    /\ <>(AllocFailed \/ \A h \in net_hosts : AllocEnded(h))
    /\ \A h \in Hosts :
          (proc[h].pc = "ida_wait" /\ label # NoLabel)
             ~> (proc[h].pc # "ida_wait")
    /\ \A h \in Hosts :
          (proc[h].pc = "guid_wait" /\ net_hosts \subseteq DOMAIN guids)
             ~> (proc[h].pc # "guid_wait")

\* both hosts of a two-host IB network are past both waits
C10_BothWaitsPassed ==
    /\ ntype = "ib"
    /\ Cardinality(net_hosts) = 2
    /\ \A h \in net_hosts : proc[h].pc = "alloced" /\ proc[h].raised = {}

\* C11: for every network type, after alloc_node_resources has returned on a
\* host, the record cluster/<network>/<host_rank> exists if and only if at
\* least one VM of the network runs on that host.
C11_RecordIffLocalVm ==
    \A h \in live :
        (proc[h].pc = "alloced" /\ "alloc" \notin proc[h].raised)
        => (record[h].present <=> LocalIdx(h) # {})

\* C12: for every network type, once free_node_resources has completed on
\* every host of the job, no record cluster/<network>/<host_rank> written
\* by alloc_node_resources remains in the key-value store.
C12_NoRecordAfterFree ==
    (\A h \in live : FreeEnded(h) /\ proc[h].raised = {})
    => \A h \in Hosts : LocalIdx(h) # {} => ~record[h].present

\* the TAP (bridged, pv, nat), VF (hostib, ib) or PCI address (genericpci)
\* an entry vm-<rank> of a record names
EntryDevice(e) ==
    CASE ntype \in {"bridged", "pv", "nat"} -> e.tap_name
      [] ntype \in {"hostib", "ib"} -> e.vf_addr
      [] OTHER -> e.dev_addr

\* the devices of that kind present on host h
HostDevices(h) ==
    IF ntype \in {"bridged", "pv", "nat"} THEN kern[h].taps ELSE kern[h].vfio

\* C13: after alloc_node_resources succeeds, each VM of the network has
\* exactly one entry vm-<rank> in the record of the host it runs on, the
\* entry names one TAP, VF or PCI address of that host, and no two VMs of
\* the host are given the same one.
C13_OneDevicePerVm ==
    \A h \in live :
        (proc[h].pc = "alloced" /\ "alloc" \notin proc[h].raised
            /\ LocalIdx(h) # {})
        => /\ record[h].present
           /\ DOMAIN record[h].vm = {vms[i].rank : i \in LocalIdx(h)}
           /\ \A r \in DOMAIN record[h].vm :
                 EntryDevice(record[h].vm[r]) \in HostDevices(h)
           /\ \A r1, r2 \in DOMAIN record[h].vm :
                 r1 # r2 => EntryDevice(record[h].vm[r1])
                                # EntryDevice(record[h].vm[r2])

\* two VMs of a host have been given their VFs
C13_TwoVmsTwoVfs ==
    \E h \in live :
        /\ ntype = "hostib"
        /\ proc[h].pc = "alloced" /\ "alloc" \notin proc[h].raised
        /\ Cardinality(LocalIdx(h)) = 2
        /\ Cardinality(DOMAIN record[h].vm) = 2

\* C14: after any sequence of successful alloc_node_resources executions for
\* a bridged, pv or nat network on a host, a second execution for the same
\* job included, every TAP or bridge of the network's prefix on the host is
\* named in the host's current record.
C14_DevicesListedAfterRealloc ==
    \A h \in live :
        (/\ ntype \in {"bridged", "pv", "nat"}
         /\ proc[h].pc = "alloced"
         /\ proc[h].raised = {}
         /\ proc[h].refrees = 0)
        => /\ kern[h].taps \subseteq RecordedTaps(h)
           /\ ntype = "pv" => kern[h].brs \subseteq RecordedBridges(h)

\* the stages of cleanup_node run to the end give the cleaned host
StagesAgree ==
    \A h \in Hosts :
        RunStages(kern[h], 1, StageCount) = CleanupKernel(kern[h])

\* the TAPs, bridges and passthrough bindings of the network left on host h
Leftovers(h) ==
    CASE ntype \in {"bridged", "nat"} -> kern[h].taps
      [] ntype = "pv" -> kern[h].taps \cup kern[h].brs
      [] ntype = "genericpci" -> kern[h].vfio \cap Range(_device_addrs)
      [] OTHER -> kern[h].vfio \cap VFs

\* C15: cleanup_node of every network type goes on after the failure of one
\* reclaim step: it does not raise, and every other leftover TAP, bridge or
\* VF binding of the network is still reclaimed.
C15_CleanupContinues ==
    \A h \in live :
        proc[h].pc = "cleaned"
        => /\ "cleanup" \notin proc[h].raised
           /\ Cardinality(Leftovers(h)) <= 1

\* C16: free_node_resources is idempotent: for every network type, a second
\* run after a first successful run (same cluster, same host) succeeds and
\* leaves the host and the key-value store as the first run left them.
C16_FreeIdempotent ==
    [][\A h \in live :
          (/\ proc[h].refrees = 1
           /\ proc[h].pc \in {"alloced", "free_ida_read", "free_ida_cas"}
           /\ proc'[h] # proc[h])
          => /\ "free" \notin proc'[h].raised
             /\ kern'[h] = kern[h]
             /\ kvVars' = kvVars]_vars

\* ------------------------------------------------------------------ loader
\* C17: for every catalog that fails schema validation, at the top level of
\* the document or under a network name (an unknown type tag included),
\* load ends by raising InvalidConfigurationError and no other exception
C17_LoadRaisesConfigError ==
    (/\ loaded.pc = "done"
     /\ catalog.kind \in {"scalar", "map"}
     /\ Errors(catalog) # {})
    => loaded.raised = "InvalidConfigurationError"

\* the catalog whose one entry m is a pv network with the required settings
PvMinimal(m) ==
    Doc("map", [n \in {m} |->
                   Entry("pv", SettingsOn("pv", Required("pv")))])

\* C18: a pv entry holding only bridge-prefix and tap-prefix is loaded
\* without error into a network object with mac-prefix 52:54:00 and mtu 1500
C18_PvRequiredOnlyAccepted ==
    \A m \in Names :
        (NameOk(m) /\ catalog = PvMinimal(m) /\ loaded.pc = "done")
        => /\ loaded.raised = ""
           /\ m \in DOMAIN loaded.nets
           /\ loaded.nets[m].attrs["mac-prefix"] = "52:54:00"
           /\ loaded.nets[m].attrs["mtu"] = "1500"
\* ------------------------------------------------------------ device family
\* C19: for a hostib or ib network whose host device is neither mlx4 nor
\* mlx5, alloc_node_resources on a host with a VM of the network fails, and
\* when it has failed no VF of the host is bound to the passthrough driver
C19_UnknownFamilyNoSideEffect ==
    \A h \in live :
        (/\ ntype \in {"hostib", "ib"}
         /\ device_vf_type(host_device) = NoVFType
         /\ LocalIdx(h) # {}
         /\ proc[h].pc = "alloced")
        => /\ "alloc" \in proc[h].raised
           /\ kern[h].vfio = {}
\* ----------------------------------------------------------- missing record
\* a step in which host h runs free_node_resources or load_node_resources
FreeOrLoadStep(h) ==
    /\ proc[h].pc = "alloced"
    /\ \/ proc'[h].pc \in {"freed", "free_ida_read"}
       \/ proc'[h].launched # proc[h].launched

\* C20: free_node_resources and load_node_resources, run on a host with a
\* local VM of the network and no record, raise 'unable to load resources'
\* and change no kernel or key-value state; run on a host with no local VM
\* of the network they raise nothing, change nothing and do not read the
\* store
C20_MissingRecord ==
    [][\A h \in live :
          /\ (FreeOrLoadStep(h) /\ LocalIdx(h) # {} /\ ~record[h].present)
             => /\ proc'[h].raised \ proc[h].raised \in {{"free"}, {"load"}}
                /\ proc'[h].err = UnableToLoad
                /\ kern' = kern
                /\ kvVars' = kvVars
          /\ (FreeOrLoadStep(h) /\ LocalIdx(h) = {})
             => /\ proc'[h].raised = proc[h].raised
                /\ ~proc'[h].kvread
                /\ kern' = kern
                /\ kvVars' = kvVars]_vars

\* both operations have failed on a host of a pv network that has a local VM
\* and no record
C20_BothFailedWithoutRecord ==
    \E h \in live :
        /\ ntype = "pv"
        /\ LocalIdx(h) # {}
        /\ ~record[h].present
        /\ {"free", "load"} \subseteq proc[h].raised
        /\ proc[h].err = UnableToLoad
\* ------------------------------------------------------------- ib VM GUIDs
\* the position of the VM at index i among the VMs of the network
PosInNet(i) == Cardinality({j \in NetIdx : j <= i})

\* C21: in the IB type with an MLX5 device, for every VM of the network the
\* port GUID the master lists in vf_guids of global/opensm/pkeys/<pkey> is
\* the port GUID the VM's own host has programmed on the VF of the VM
C21_FabricGuidIsVfGuid ==
    (ntype = "ib" /\ device_vf_type(host_device) = MLX5) =>
    \A h \in live : \A i \in LocalIdx(h) : \A k \in DOMAIN opensm :
        (proc[h].pc = "alloced" /\ "alloc" \notin proc[h].raised)
        => /\ HasVm(record[h], vms[i])
           /\ <<record[h].vm[_vm_res_label(vms[i])].vf_addr,
                 opensm[k].vf_guids[PosInNet(i)]>> \in kern[h].vfguid

\* the master has written the fabric record and a host other than the master
\* has programmed the VF of its VM
C21_NonMasterProgrammed ==
    /\ ntype = "ib"
    /\ opensm # <<>>
    /\ \E h \in live :
          /\ h # proc[h].master
          /\ proc[h].pc = "alloced"
          /\ "alloc" \notin proc[h].raised
          /\ kern[h].vfguid # {}
\* ------------------------------------------------------------------ pv MAC
\* rank < 16^n, for the ranks below 2^31
RankFits(rank, n) == n >= 8 \/ rank < 16 ^ n
\* six bytes of two hex digits separated by ':'
SixBytes(m) ==
    /\ Len(m) = 17
    /\ \A i \in 1 .. 17 : IF i % 3 = 0 THEN m[i] = Colon ELSE m[i] \in 0 .. 15

\* C22: for a prefix of prefix_len hex digits, the MACs of two different
\* ranks below 16^(12-prefix_len) are different and each is six two-digit
\* hex bytes
C22_MacUniqueAndSixBytes ==
    (/\ calc.op = "hwaddr"
     /\ calc.pc = "done"
     /\ RankFits(calc.r1, suffix_len(calc.prefix))
     /\ RankFits(calc.r2, suffix_len(calc.prefix)))
    => /\ SixBytes(calc.out[1])
       /\ SixBytes(calc.out[2])
       /\ calc.r1 # calc.r2 => calc.out[1] # calc.out[2]

\* two ranks whose hex digits differ in length got their MACs under a
\* four-byte prefix, one of them the highest rank the prefix leaves room for
C22_FourBytePrefixTopRank ==
    /\ calc.op = "hwaddr"
    /\ calc.pc = "done"
    /\ suffix_len(calc.prefix) = 4
    /\ calc.r1 = 65535
    /\ calc.r2 = 1
    /\ calc.out[1] # calc.out[2]
\* -------------------------------------------------------- nat reverse NAT
\* the record being built, or the one written when the loop has ended
NatRes(p, r) == IF p.pc = "alloc_vm" THEN p.net_res ELSE r
DnatRules(K) == {x \in K.ipt : x.kind = "dnat"}

\* C23: with reverse-nat, each pass of the per-VM loop of the NAT alloc
\* either gives the VM host_port = min-host-port + tap_id, within the range
\* and different from the host_port of the VMs allocated before on the
\* host, or, when that port is above max-host-port, raises and writes no
\* DNAT rule and no rnat key
C23_HostPortInRange ==
    [][\A h \in live :
          (/\ ntype = "nat"
           /\ cfg.rnat > 0
           /\ proc[h].pc = "alloc_vm"
           /\ proc'[h] # proc[h])
          => LET vm == vms[proc[h].i]
                 l == _vm_res_label(vm)
                 hp == min_host_port + find_free_dev_id(kern[h].taps)
                 res == NatRes(proc'[h], record'[h])
             IN IF hp > max_host_port
                THEN /\ "alloc" \in proc'[h].raised
                     /\ rnat' = rnat
                     /\ DnatRules(kern'[h]) = DnatRules(kern[h])
                ELSE "alloc" \notin proc'[h].raised
                     => /\ l \in DOMAIN res.vm
                        /\ res.vm[l].host_port = hp
                        /\ res.vm[l].host_port = min_host_port
                                                   + res.vm[l].tap_name
                        /\ hp >= min_host_port
                        /\ hp <= max_host_port
                        /\ rnat'[vm.rank] = hp
                        /\ \A m \in DOMAIN res.vm \ {l} :
                              res.vm[m].host_port # hp]_vars

\* a second VM was refused for lack of a host port after a first one got
\* the only port of the range
C23_SecondVmRefused ==
    \E h \in live :
        /\ ntype = "nat"
        /\ cfg.rnat = 1
        /\ "alloc" \in proc[h].raised
        /\ DOMAIN rnat # {}
        /\ Cardinality(kern[h].taps) = 2
        /\ Cardinality(DnatRules(kern[h])) = 2
\* ------------------------------------------------------------- nat VM IPs
\* the addresses of nat-network: those sharing its first nat_bits bits
InNatNetwork(ip) ==
    ip \div 2 ^ (32 - cfg.nat_bits) = cfg.nat_network \div 2 ^ (32 - cfg.nat_bits)

\* C24: in the NAT type every allocated VM has vm_nat_ip = nat-network base
\* + tap_id + 2, inside nat-network, different from the bridge's address
\* base + 1 and from the vm_nat_ip of the other VMs allocated on the host
C24_NatIpInsideNetwork ==
    \A h \in live :
        ntype = "nat" =>
        LET res == NatRes(proc[h], record[h]) IN
        \A l \in DOMAIN res.vm :
            /\ res.vm[l].nat_ip = cfg.nat_network + res.vm[l].tap_name + 2
            /\ InNatNetwork(res.vm[l].nat_ip)
            /\ res.vm[l].nat_ip # get_ip_on_network(cfg.nat_network, 1)
            /\ \A m \in DOMAIN res.vm \ {l} :
                  res.vm[m].nat_ip # res.vm[l].nat_ip
\* ------------------------------------------------------------ free TAP ids
UsedIds == {id_from_dev_name(TapPrefix, n) :
               n \in find_used_dev_ids(TapPrefix, calc.names)}
IdsAllDifferent ==
    Cardinality(UsedIds) = Cardinality(find_used_dev_ids(TapPrefix, calc.names))

\* C25: for every set of existing device names find_free_dev_id returns a
\* non-negative id that no existing device of the prefix uses, and it is
\* the lowest such id
C25_LowestFreeId ==
    (calc.op = "free_id" /\ calc.pc = "done")
    => /\ calc.out >= 0
       /\ calc.out \notin UsedIds
       /\ \A j \in 0 .. calc.out - 1 : j \in UsedIds

\* C25 as it holds: the id returned is non-negative and unused, and it is
\* the lowest unused id when no two existing devices of the prefix give the
\* same id
C25_FreeIdLowestIfIdsDiffer ==
    (calc.op = "free_id" /\ calc.pc = "done")
    => /\ calc.out >= 0
       /\ calc.out \notin UsedIds
       /\ IdsAllDifferent => \A j \in 0 .. calc.out - 1 : j \in UsedIds

\* the id between two used ones was returned while devices of other
\* prefixes exist
C25_GapReturned ==
    /\ calc.op = "free_id"
    /\ calc.pc = "done"
    /\ UsedIds = {0, 2}
    /\ IdsAllDifferent
    /\ <<"b", "r", "0">> \in calc.names
    /\ calc.out = 1
\* C26: in each cycle of pkey_daemon the partition file holds a block for
\* exactly the children of global/opensm/pkeys whose name is a partition key
\* and whose value parses and satisfies the pkey-entry schema in the listing
\* the cycle read; the other children are skipped.
C26_BlocksAreValidPkeys ==
    (smd.file.asof >= 0 /\ smd.file.complete) =>
       smd.file.blocks =
          {<<n, smd.file.snap[n].guids>> :
              n \in {k \in DOMAIN smd.file.snap :
                        /\ IsPkeyName(k)
                        /\ smd.file.snap[k].parses
                        /\ pkey_entry_valid(smd.file.snap[k])}}

\* C27: the partition file at the configured path is whole at every moment
\* (the previous rendering or the new one), and once the daemon has replaced
\* it and set its permissions its mode is 0644.
C27_FileWholeAndMode0644 ==
    /\ smd.file.complete
    /\ (smd.replaced >= 0 /\ smd.pc # "chmod") => smd.mode = Mode0644

\* C28: every change of global/opensm/pkeys, one made during a cycle of the
\* daemon included, is eventually followed by a partition file rendered from
\* the listing of the directory at or after that change; and SIGHUP is sent
\* in a cycle only after the file was replaced in that cycle.
C28_NoLostUpdate ==
    /\ \A i \in 0 .. MaxChanges :
          [](pkeydir.index = i =>
                <>(/\ smd.file.complete
                   /\ smd.file.asof >= i
                   /\ smd.file.snap = pkeydir.past[smd.file.asof + 1]))
    /\ [][smd'.hups # smd.hups =>
            /\ smd.replaced = smd.last_index
            /\ smd.file = smd.tmp
            /\ smd.tmp.asof = smd.last_index]_vars

\* a change made while the daemon was in a cycle is in the file, and the
\* signal of that later cycle was sent
C28_ChangeDuringCycleRendered ==
    /\ pkeydir.busy > 0
    /\ smd.file.complete
    /\ smd.file.asof >= pkeydir.busy
    /\ smd.hups >= pkeydir.busy
    /\ smd.file.snap = pkeydir.children

\* an attempt of vf_set_pkey is made for the VM host h is allocating
PkeyAttempt(h) == pkey_try'[h].attempts = pkey_try[h].attempts + 1
\* alloc_node_resources raises on host h after writing its partial record
RaisedAfterDump(h) ==
    /\ "alloc" \in proc'[h].raised
    /\ proc'[h].pc = "alloced"
    /\ record'[h] = [proc[h].net_res EXCEPT !.present = TRUE]
\* the VM host h was allocating got its VF and the loop went on
VmAllocated(h) ==
    /\ "alloc" \notin proc'[h].raised
    /\ proc'[h].pc \in {"alloc_vm", "alloced"}
    /\ pkey_try[h].vf_addr \in kern'[h].vfset

\* C29 as stated: with an MLX4 device vf_set_pkey is attempted at most five
\* times per VM; after the i-th failed attempt (i = 1..4) the host sleeps
\* 2i-1 seconds and retries; three failures followed by a success have slept
\* 1+3+5 seconds and the VM is allocated; a fifth failure is re-raised after
\* the partial record was written.
C29_EveryFailureRetried ==
    [][\A h \in Hosts : PkeyAttempt(h) =>
          LET n == pkey_try'[h].attempts
              failed == pkey_try'[h].last # "ok"
          IN /\ n <= 5
             /\ (failed /\ n <= 4) =>
                   /\ pkey_try'[h].slept = pkey_try[h].slept + 2 * n - 1
                   /\ proc'[h].pc = "set_pkey"
                   /\ "alloc" \notin proc'[h].raised
             /\ (failed /\ n = 5) => RaisedAfterDump(h)
             /\ (~failed /\ n = 4) =>
                   /\ pkey_try'[h].slept = 1 + 3 + 5
                   /\ VmAllocated(h)]_vars

\* C29 (amended): the same for the attempts that fail with NetworkSetupError
\* (the partition key is not on the device yet); an attempt that fails with
\* any other exception is not retried: no sleep, the partial record is
\* written and the exception re-raised.
C29_SetupErrorRetried ==
    [][\A h \in Hosts : PkeyAttempt(h) =>
          LET n == pkey_try'[h].attempts
              last == pkey_try'[h].last
          IN /\ n <= 5
             /\ (last = "not_found" /\ n <= 4) =>
                   /\ pkey_try'[h].slept = pkey_try[h].slept + 2 * n - 1
                   /\ proc'[h].pc = "set_pkey"
                   /\ "alloc" \notin proc'[h].raised
             /\ (last = "not_found" /\ n = 5) => RaisedAfterDump(h)
             /\ last = "error" =>
                   /\ pkey_try'[h].slept = pkey_try[h].slept
                   /\ RaisedAfterDump(h)
             /\ last = "ok" =>
                   /\ VmAllocated(h)
                   /\ n = 4 => pkey_try'[h].slept = 1 + 3 + 5]_vars

\* three attempts failed with NetworkSetupError, the fourth succeeded and
\* alloc_node_resources returned
C29_ThreeFailuresThenSuccess ==
    \E h \in live :
       /\ ntype = "ib"
       /\ device_vf_type(host_device) = MLX4
       /\ pkey_try[h].attempts = 4
       /\ pkey_try[h].last = "ok"
       /\ pkey_try[h].slept = 9
       /\ proc[h].pc = "alloced"
       /\ "alloc" \notin proc[h].raised
       /\ record[h].present

\* C30: when the master of a pv or ib network finds the bitmap of the type
\* full, alloc_node_resources ends on that host with a setup error that names
\* the network, and the host then has no bridge, TAP, switch port or VF bound
\* for the job, no GUID key and no allocation record.
C30_FullBitmapFailsClean ==
    [][\A h \in Hosts :
          (/\ proc[h].pc = "ida_read"
           /\ proc'[h] # proc[h]
           /\ Cardinality(bitmap) >= ida_size)
          => /\ "alloc" \in proc'[h].raised
             /\ proc'[h].pc = "alloced"
             /\ proc'[h].err = SetupErrorNamed
             /\ kern'[h].brs = {}
             /\ kern'[h].taps = {}
             /\ kern'[h].ports = {}
             /\ kern'[h].vfio = {}
             /\ kern'[h].vfset = {}
             /\ h \notin DOMAIN guids'
             /\ ~record'[h].present
             /\ bitmap' = bitmap]_vars

\* the master's alloc_node_resources has failed on a full bitmap
C30_MasterRefused ==
    \E h \in live :
       /\ ntype \in {"pv", "ib"}
       /\ Cardinality(bitmap) >= ida_size
       /\ proc[h].pc = "alloced"
       /\ proc[h].err = SetupErrorNamed
       /\ "alloc" \in proc[h].raised
       /\ ~record[h].present

\* the number of times a rule is in a table
RuleCount(table, rule) ==
    Cardinality({i \in 1 .. Len(table) : table[i] = rule})

\* C31: whenever a run of NAT init_node has returned, after any number of
\* runs and of runs cut short at any step, each rule it installs is in the
\* firewall exactly once; and ipt_delete_rule_idemp on an absent rule changes
\* nothing and does not fail.
C31_InitRulesOnce ==
    calc.op = "nat_init" =>
       /\ calc.pc = Len(NatInitOrder) =>
             \A r \in NatInitRules : RuleCount(calc.table, r) = 1
       /\ ~calc.failed
       /\ ~calc.changed

\* init_node returned in a run that followed a run cut short, and a delete
\* of an absent rule was made
C31_RerunAfterCrash ==
    /\ calc.op = "nat_init"
    /\ calc.pc = Len(NatInitOrder)
    /\ calc.runs > 1
    /\ calc.crashes > 0
    /\ calc.absent

\* C32: after NAT free_node_resources has returned on a host whose alloc had
\* succeeded, none of the flows alloc installed for the local VMs (egress
\* SNAT, ingress DNAT, DHCP to the bridge) is left on the bridge, their ports
\* and TAPs are deleted, their ARP entries and reverse-NAT rules are gone.
C32_NatFreeRemovesVmState ==
    \A h \in live :
       (/\ ntype = "nat"
        /\ proc[h].pc = "freed"
        /\ AllocOk(h)
        /\ "free" \notin proc[h].raised)
       => /\ ~\E fl \in kern[h].flows :
                fl.match \in {"snat", "dnat", "dhcp_req"}
          /\ PortsOf(kern[h], NatBridge) = {}
          /\ kern[h].taps = {}
          /\ kern[h].arp = {}
          /\ ~\E r \in kern[h].ipt : r.kind = "dnat"

\* C33: when init_node of a NAT network has returned, a live DHCP/DNS server
\* bound to the bridge of that network and serving its vm-ip runs on the
\* host, after any sequence of init_node calls of the NAT networks of the
\* host; and no two servers run for one bridge.
C33_ServerForInitedNetwork ==
    calc.op = "dnsmasq" =>
       /\ calc.last \in NatNets =>
             \E sv \in calc.servers :
                sv.bridge = calc.last /\ sv.vm_ip = calc.last
       /\ \A a, b \in calc.servers : a.bridge = b.bridge => a = b

\* the resource-exhausted setup error of VGenericPCI.alloc_node_resources
NoFreeDevice == "setup error: unable to find a free PCI device"
\* the addresses of host-device-addrs not bound to vfio-pci on host h
FreeAddrs(h) ==
    {_device_addrs[i] : i \in {k \in 1 .. NumDevs :
                                  _device_addrs[k] \notin kern[h].vfio}}
\* the addresses recorded for the VMs served so far on host h
ServedAddrs(res) == {res.vm[l].dev_addr : l \in DOMAIN res.vm}

\* C34: one pass of the loop of genericpci alloc_node_resources that serves
\* its VM records the first address of host-device-addrs not bound to
\* vfio-pci at that moment, an address no earlier VM of the call got; a pass
\* that finds every address bound raises the resource-exhausted setup error
\* after writing the entries of the VMs already served.
C34_FirstFreeOrExhausted ==
    [][\A h \in Hosts :
         (ntype = "genericpci" /\ proc[h].pc = "alloc_vm" /\
          proc'[h] # proc[h]) =>
            LET vm == vms[proc[h].i]
                res == IF proc'[h].pc = "alloced" THEN record'[h]
                       ELSE proc'[h].net_res
            IN /\ ("alloc" \notin proc'[h].raised) =>
                     /\ HasVm(res, vm)
                     /\ res.vm[_vm_res_label(vm)].dev_addr \in FreeAddrs(h)
                     /\ \A a \in FreeAddrs(h) :
                           res.vm[_vm_res_label(vm)].dev_addr <= a
                     /\ res.vm[_vm_res_label(vm)].dev_addr \notin
                           ServedAddrs(proc[h].net_res)
               /\ FreeAddrs(h) = {} =>
                     /\ "alloc" \in proc'[h].raised
                     /\ record'[h] = [proc[h].net_res EXCEPT
                                         !.present = TRUE]
                     /\ proc'[h].err = NoFreeDevice]_vars

\* pv alloc_node_resources has returned on host h, which has a local VM
PvAllocated(h) ==
    /\ ntype = "pv"
    /\ proc[h].pc = "alloced"
    /\ proc[h].raised = {}
    /\ LocalIdx(h) # {}
    /\ record[h].present
\* the flows of one priority on the bridge of the job on host h
PvFlows(h, prio) ==
    {f \in kern[h].flows :
        f.br = record[h].glob.bridge_name /\ f.prio = prio}
PvPorts(h) == PortsOf(kern[h], record[h].glob.bridge_name)
PvTunnels(h) == {p \in PvPorts(h) : p.key # NoKey}
PvLocalPorts(h) == {p.ofport : p \in PvPorts(h) \ PvTunnels(h)}
RemoteHosts(h) == {vms[i].host : i \in NetIdx} \ {h}

\* C35: after pv alloc_node_resources on a host with a local VM the bridge
\* has, for every VM of the network, exactly one priority-3000 flow on the
\* MAC of the VM, which outputs to the TAP port of the VM if it is local and
\* to the tunnel port towards its host otherwise; exactly one tunnel port per
\* remote host with a VM of the network, each keyed by the tunnel id of the
\* job; one priority-2000 flood flow per local port; and one priority-1000
\* flow whose outputs are exactly the local ports.
C35_PvFlowTable ==
    \A h \in Hosts :
       PvAllocated(h) =>
          LET res == record[h]
              tun_id == res.glob.tun_id
          IN /\ \A i \in NetIdx :
                   LET vm == vms[i]
                       fl == {f \in PvFlows(h, 3000) :
                                 f.match = "dl_dst" /\
                                 f.key = _gen_vm_hwaddr(vm)}
                   IN /\ Cardinality(fl) = 1
                      /\ \A f \in fl :
                            \E p \in PvPorts(h) :
                               /\ f.outs = <<p.ofport>>
                               /\ IF is_on_node(vm, h)
                                  THEN /\ HasVm(res, vm)
                                       /\ p.dev = res.vm[_vm_res_label(vm)]
                                                     .tap_name
                                       /\ p.ofport = res.vm[_vm_res_label(vm)]
                                                        .port_id
                                       /\ p.key = NoKey
                                  ELSE /\ p.remote = vm.host
                                       /\ p.key = tun_id
             /\ Cardinality(PvFlows(h, 3000)) = Cardinality(NetIdx)
             /\ \A r \in RemoteHosts(h) :
                   Cardinality({p \in PvTunnels(h) : p.remote = r}) = 1
             /\ \A p \in PvTunnels(h) :
                   p.remote \in RemoteHosts(h) /\ p.key = tun_id
             /\ \A a, b \in PvPorts(h) : a.ofport = b.ofport => a = b
             /\ \A n \in PvLocalPorts(h) :
                   Cardinality({f \in PvFlows(h, 2000) :
                                   f.match = "in_port" /\ f.key = <<n>> /\
                                   f.outs = <<PORT_FLOOD>>}) = 1
             /\ Cardinality(PvFlows(h, 2000)) = Cardinality(PvLocalPorts(h))
             /\ Cardinality(PvFlows(h, 1000)) = 1
             /\ \A f \in PvFlows(h, 1000) :
                   /\ Range(f.outs) = PvLocalPorts(h)
                   /\ Len(f.outs) = Cardinality(PvLocalPorts(h))
             /\ Cardinality(PvLocalPorts(h)) = Cardinality(LocalIdx(h))
\* a host has a local VM and two VMs of the network on one remote host
C35_LocalAndTwoRemote ==
    \E h \in Hosts :
       /\ PvAllocated(h)
       /\ \E i, j \in NetIdx :
             i # j /\ vms[i].host = vms[j].host /\ vms[i].host # h

\* some VM of the cluster uses the network
NetworkUsed == \E i \in 1 .. Len(vms) : vms[i].net
LicenseDone == calc.op = "license" /\ calc.pc = "done"

\* C36 as stated: get_license of an ib network returns the list of the
\* configured license name exactly when the settings hold a license and a VM
\* of the cluster uses the network, and the empty list otherwise; the other
\* types return the empty list.
C36_LicenseWhenConfigured ==
    LicenseDone =>
       calc.out = IF ntype = "ib" /\ calc.license.set /\ NetworkUsed
                  THEN <<calc.license.name>> ELSE <<>>
\* C36 amended: get_license of an ib network returns the list of the
\* configured license name exactly when the settings hold a license whose
\* name is not the empty string and a VM of the cluster uses the network,
\* and the empty list otherwise; the other types return the empty list.
C36_LicenseWhenNamed ==
    LicenseDone =>
       calc.out = IF /\ ntype = "ib"
                     /\ calc.license.set
                     /\ calc.license.name # ""
                     /\ NetworkUsed
                  THEN <<calc.license.name>> ELSE <<>>
\* an ib network with a named license, used by a VM, after the call
C36_LicenseReturned ==
    /\ LicenseDone
    /\ ntype = "ib"
    /\ calc.license.name # ""
    /\ NetworkUsed
    /\ calc.out = <<calc.license.name>>

\* the GUIDs of the lines of one part, in the order written
RECURSIVE LineGuids(_, _)
LineGuids(lines, part) ==
    IF Len(lines) = 0 THEN <<>>
    ELSE (IF Head(lines).part = part THEN Head(lines).guids ELSE <<>>) \o
         LineGuids(Tail(lines), part)
PartLines(lines, part) == SelectSeq(lines, LAMBDA l : l.part = part)
\* every line holds at most chunk_size GUIDs, and exactly chunk_size unless
\* it is the last one
LinesFull(ls) ==
    \A i \in 1 .. Len(ls) :
       /\ Len(ls[i].guids) >= 1
       /\ Len(ls[i].guids) <= 128
       /\ i < Len(ls) => Len(ls[i].guids) = 128

\* C37: the rendering of a valid entry writes every GUID of vf_guids once and
\* every GUID of host_guids once, in their order, on consecutive lines of at
\* most 128 GUIDs of which all but the last of a list hold exactly 128.
C37_GuidsOnceInChunks ==
    (calc.op = "render" /\ calc.pc = "done") =>
       /\ LineGuids(calc.lines, "indx0") = calc.config.vf_guids
       /\ LineGuids(calc.lines, "host") = calc.config.host_guids
       /\ LinesFull(PartLines(calc.lines, "indx0"))
       /\ LinesFull(PartLines(calc.lines, "host"))
       /\ \A i, j \in 1 .. Len(calc.lines) :
             (calc.lines[i].part = "indx0" /\ calc.lines[j].part = "host")
                => i < j
\* a list of 257 GUIDs is rendered on three lines, one of 129 on two
C37_SeveralLines ==
    /\ calc.op = "render"
    /\ calc.pc = "done"
    /\ Len(calc.config.vf_guids) = 257
    /\ Len(calc.config.host_guids) = 129
    /\ Len(calc.lines) = 5

\* C38: two jobs that run alloc_node_resources at the same time on one host,
\* for networks with the same tap-prefix and bridge-prefix, never record the
\* same bridge name or the same TAP name, whatever the interleaving of their
\* find-free-name and create-device steps.
C38_NoSharedDeviceName ==
    calc.op = "race" =>
       \A a, b \in Jobs :
          (a # b /\ calc.job[a].pc = "done" /\ calc.job[b].pc = "done") =>
             /\ calc.job[a].rec_bridge # calc.job[b].rec_bridge
             /\ calc.job[a].rec_tap # calc.job[b].rec_tap

\* C39: for every partition key of [min-pkey, max-pkey] a master can
\* allocate, the name under which the master writes the entry, opensm/pkeys/
\* followed by hex(pkey), is accepted by the name filter of pkey_daemon.
C39_WrittenNameAccepted ==
    (calc.op = "pkey_name" /\ calc.pc = "filtered") => calc.accepted

\* "^0x[0-9a-zA-Z]{16}$" on the digits after 0x
SixteenDigits(g) == Len(g) = 16 /\ \A i \in 1 .. Len(g) : g[i] \in 0 .. 15

\* C40: for every rank >= 0 and every partition key of [0x0000, 0xffff],
\* vm_get_guid and vm_get_node_guid return '0x' followed by exactly sixteen
\* hexadecimal digits, and two different pairs of rank and partition key
\* never have the same port GUID.
C40_GuidSixteenDigitsUnique ==
    (calc.op = "guid" /\ calc.pc = "done") =>
       /\ \A k \in 1 .. 2 :
             SixteenDigits(calc.port[k]) /\ SixteenDigits(calc.node[k])
       /\ <<calc.r1, calc.p1>> # <<calc.r2, calc.p2>> =>
             calc.port[1] # calc.port[2]

====
